---------------------------- MODULE Spec2Model ----------------------------
(***************************************************************************)
(* A model of snippet-uiautomator, the Python binding of Android's         *)
(* UiAutomator over Mobly snippet RPC:                                     *)
(*   - SnippetClient.send_rpc_request and its reconnect                    *)
(*     (snippet_uiautomator/snippet_client.py),                            *)
(*   - the UiAutomatorService life cycle (snippet_uiautomator/             *)
(*     uiautomator.py),                                                    *)
(*   - BySelector and the UiObject2 operations built on it                 *)
(*     (snippet_uiautomator/byselector.py, uiobject2.py),                  *)
(*   - the logcat helpers (snippet_uiautomator/utils.py).                  *)
(* A handler is one action.  The calls a handler makes into Mobly, adb or  *)
(* the device are external: each one's outcome (a value, or an exception)  *)
(* is an input of the action, and the calls the handler issued are kept,   *)
(* in order, in the log of the last call.                                  *)
(***************************************************************************)
EXTENDS Integers, Sequences, FiniteSets, TLC

VARIABLES
    \* SnippetClient
    hostPort,       \* self.host_port; 0 is None
    forwards,       \* the host ports 'adb forward --list' reports
    connected,      \* whether the client's socket is open
    clientCall,     \* the host port and forwards the last call found
    clientLog,      \* the external calls of the last send_rpc_request
    clientResult,   \* what the last send_rpc_request returned or raised
    \* UiAutomatorService and the device it drives
    packages,       \* the packages 'pm list package' reports
    snippetLoaded,  \* snippets.get_snippet_client(self._service) is not None
    snippetConnected, \* whether that client's connection to the server is open
    uiDevice,       \* the device's attribute ui_public_service_name
    skip_installing,\* self._configs.skip_installing
    raise_error,    \* self._configs.raise_error
    package_name,   \* self._configs.snippet.package_name
    registered,     \* the configs of the services registered as 'uiautomator'
    svcCall,        \* the last call on the service and the state it found
    svcLog,         \* the steps and external calls of that call
    svcResult,      \* the exception it raised, if any
    svcValue,       \* the UiDevice it returned, if any
    \* One UiObject2 and its BySelector
    selector,       \* BySelector._selector, a nested dictionary
    bottom,         \* BySelector._bottom, as the path from _selector to it
    objRaise,       \* UiObject2._raise_error
    criteria,       \* the keyword arguments the BySelector was built from
    appended,       \* the successful append calls since, in order
    watcher,        \* one UiWatcher: its name and its _condition
    helper,         \* one helper (_Wait, _Scroll, ...) got from the object
    objCall,        \* the last operation on the object, with what it found
    objLog,         \* the RPCs of that operation
    objResult,      \* what it returned or raised
    \* utils
    logcat,         \* what 'adb logcat -d' prints, a sequence of tokens
    utilCall,       \* the last utils function called
    utilArg,        \* the argument it was called with
    utilResult      \* what it returned or raised

clientVars == <<hostPort, forwards, connected, clientCall, clientLog,
                clientResult>>

svcVars == <<packages, snippetLoaded, snippetConnected, uiDevice, skip_installing, raise_error,
             package_name, registered, svcCall, svcLog, svcResult, svcValue>>

objVars == <<selector, bottom, objRaise, criteria, appended, watcher, helper, objCall,
             objLog, objResult>>

vars == <<hostPort, forwards, connected, clientCall, clientLog, clientResult,
          packages, snippetLoaded, snippetConnected, uiDevice,
          skip_installing, raise_error, package_name, registered, svcCall, svcLog, svcResult, svcValue,
          selector, bottom, objRaise, criteria, appended, watcher, helper,
          objCall, objLog, objResult, logcat, utilCall, utilArg, utilResult>>

utilVars == <<logcat, utilCall, utilArg, utilResult>>

(***************************************************************************)
(* Exceptions.  An exception is its class and its message; the message is  *)
(* a sequence of words, so that "'socket error' in str(e)" is a search for *)
(* two adjacent words.                                                     *)
(***************************************************************************)
NoExc == [cls |-> "None", msg |-> <<>>]

Exc(cls, msg) == [cls |-> cls, msg |-> msg]

\* mobly.snippet.errors: ProtocolError and ApiError derive from Error.
SnippetErrorClasses == {"Error", "ProtocolError", "ApiError"}

IsProtocolError(e) == e.cls = "ProtocolError"

IsSnippetError(e) == e.cls \in SnippetErrorClasses

\* 'socket error' in str(e)
HasSocketError(e) ==
    \E i \in 1..(Len(e.msg) - 1) : e.msg[i] = "socket" /\ e.msg[i + 1] = "error"

MsgNoResponse == <<"No", "response", "from", "server">>
MsgSocketError == <<"Encountered", "socket", "error", "reading">>
MsgErrorSocket == <<"error", "socket", "closed">>
MsgRpcFailed == <<"RPC", "call", "failed">>

(***************************************************************************)
(* The outcome of the underlying SnippetClientV2.send_rpc_request: a       *)
(* response, or an exception.                                              *)
(***************************************************************************)
NoResp == "none"
Requests == {"q1", "q2"}
Responses == {"r1", "r2"}

Returned(resp) == [exc |-> NoExc, resp |-> resp]

Threw(cls, msg) == [exc |-> Exc(cls, msg), resp |-> NoResp]

SendOutcomes ==
    {Returned(r) : r \in Responses}
    \cup {Threw("ProtocolError", MsgNoResponse),
          Threw("Error", MsgSocketError),
          Threw("Error", MsgErrorSocket),
          Threw("ApiError", MsgRpcFailed),
          Threw("UnicodeError", MsgRpcFailed)}

(***************************************************************************)
(* The parts of the state a specification leaves alone.                    *)
(***************************************************************************)
NoUi == [attached |-> FALSE, raise_error |-> FALSE]

\* The UiAutomatorConfigs of a call that takes none.
NoConfigs ==
    [package_name |-> <<>>, skip_installing |-> FALSE, raise_error |-> FALSE]

NoCall == [op |-> "none", alive |-> FALSE, packages |-> {},
           snippetLoaded |-> FALSE, snippetConnected |-> FALSE, uiDevice |-> NoUi, skip_installing |-> FALSE,
           registered |-> <<>>, configs |-> NoConfigs]

SvcIdle ==
    /\ packages = {}
    /\ snippetLoaded = FALSE
    /\ snippetConnected = FALSE
    /\ uiDevice = NoUi
    /\ skip_installing = FALSE
    /\ raise_error = FALSE
    /\ package_name = <<>>
    /\ registered = <<>>
    /\ svcCall = NoCall
    /\ svcLog = <<>>
    /\ svcResult = NoExc
    /\ svcValue = NoUi

\* The empty dictionary, and a dictionary's values: a string, or a
\* dictionary.
EmptyDict == [k \in {} |-> 0]

StrEntry(v) == [isDict |-> FALSE, val |-> v, sub |-> EmptyDict]

DictEntry(d) == [isDict |-> TRUE, val |-> "", sub |-> d]

\* An optional argument: None, or a value.
None == <<>>

Some(v) == <<v>>

\* The positional arguments of a call that takes none.
NoArgs ==
    [x |-> None, y |-> None, speed |-> None, percent |-> None,
     direction |-> "", keycodes |-> <<>>]

\* A UiWatcher as UiDevice.watcher(name) builds it: the condition is an
\* empty BySelector; `when` is the criteria of the last when() call.
NewWatcher(name) ==
    [name |-> name, when |-> EmptyDict,
     condition |-> [selector |-> EmptyDict, bottom |-> <<>>, exc |-> "None"]]

\* No helper is held.  A helper's _selector is a reference to a BySelector:
\* the object's own (shared), or another one with its own dictionary.
NoHelper ==
    [kind |-> "none", obtained |-> 0,
     ref |-> [shared |-> FALSE, selector |-> EmptyDict, bottom |-> <<>>]]

NoObjCall ==
    [op |-> "none", name |-> "", kwargs |-> EmptyDict, selector |-> EmptyDict,
     bottom |-> <<>>, rpc |-> "none", raise_error |-> FALSE, args |-> NoArgs]

Result(kind, val, exc) == [kind |-> kind, val |-> val, exc |-> exc]

ObjIdle ==
    /\ selector = EmptyDict
    /\ bottom = <<>>
    /\ objRaise = FALSE
    /\ criteria = EmptyDict
    /\ appended = <<>>
    /\ watcher = NewWatcher("")
    /\ helper = NoHelper
    /\ objCall = NoObjCall
    /\ objLog = <<>>
    /\ objResult = Result("return", FALSE, "None")

NoArg == [type |-> "none"]

UtilIdle ==
    /\ logcat = <<>>
    /\ utilCall = "none"
    /\ utilArg = NoArg
    /\ utilResult = [kind |-> "return", val |-> ""]

NoClientCall == [hostPort |-> 0, forwards |-> {}]

ClientIdle ==
    /\ hostPort = 0
    /\ forwards = {}
    /\ connected = FALSE
    /\ clientCall = NoClientCall
    /\ clientLog = <<>>
    /\ clientResult = [exc |-> NoExc, resp |-> "none"]

(***************************************************************************)
(* A call in progress: the client's fields, the calls made so far, the     *)
(* exception in flight and the value to return.                            *)
(***************************************************************************)
Raised(s) == s.exc # NoExc

Event(op, req, out) == [op |-> op, req |-> req, out |-> out]

Done == Returned(NoResp)

\* An external call that returns nothing: it is logged, and raises or not.
Call(s, op, exc) ==
    [s EXCEPT !.log = Append(@, Event(op, "", [exc |-> exc, resp |-> NoResp])),
              !.exc = exc]

(***************************************************************************)
(* _list_occupied_adb_ports.  The output of 'adb forward --list' is a      *)
(* sequence of lines; a line is the sequence of its tokens as split(' tcp:')*)
(* gives them, the serial written 0.                                       *)
(***************************************************************************)
Ports == {1, 2}

RECURSIVE SortedPorts(_)
SortedPorts(ps) ==
    IF ps = {} THEN <<>>
    ELSE LET p == CHOOSE x \in ps : \A y \in ps : x <= y
         IN <<p>> \o SortedPorts(ps \ {p})

\* One line "<serial> tcp:<host> tcp:<device>" per forwarded port, after a
\* line that forwards to a local abstract socket ("<serial> tcp:<host>
\* localabstract:<name>": two tokens) and, with nothing forwarded, one empty
\* line (one token).
ForwardListOutput(fw) ==
    IF fw = {} THEN << <<0>> >>
    ELSE << <<0, 9>> >> \o [i \in 1..Cardinality(fw) |-> <<0, SortedPorts(fw)[i], 8>>]

RECURSIVE ListOccupiedAdbPorts(_)
ListOccupiedAdbPorts(lines) ==
    IF lines = <<>> THEN <<>>
    ELSE LET tokens == Head(lines)
         IN IF Len(tokens) # 3
            THEN ListOccupiedAdbPorts(Tail(lines))
            ELSE <<tokens[2]>> \o ListOccupiedAdbPorts(Tail(lines))

InSeq(x, seq) == \E i \in 1..Len(seq) : seq[i] = x

(***************************************************************************)
(* The steps of the reconnect.  What Mobly's close_connection and          *)
(* make_connection do to the client: close_connection closes the socket,   *)
(* removes the forward and clears host_port; make_connection forwards a    *)
(* host port and opens the socket.  A step that raises leaves the fields.  *)
(***************************************************************************)
AdbForwardList(s, exc) == Call(s, "adb_forward_list", exc)

CloseConnection(s, exc) ==
    LET t == Call(s, "close_connection", exc)
    IN IF Raised(t) THEN t
       ELSE [t EXCEPT !.connected = FALSE,
                      !.forwards = @ \ {s.hostPort},
                      !.hostPort = 0]

PmClear(s, exc) == Call(s, "pm_clear", exc)

StartServer(s, exc) == Call(s, "start_server", exc)

MakeConnection(s, exc, port) ==
    LET t == Call(s, "make_connection", exc)
    IN IF Raised(t) THEN t
       ELSE [t EXCEPT !.connected = TRUE,
                      !.forwards = @ \cup {port},
                      !.hostPort = port]

\* The outcomes of the reconnect's external calls: step `fails` raises (0:
\* none does), and make_connection forwards `port`.
RestartOutcomes == [fails : 0..5, port : Ports]

StepExc(o, k, cls) == IF o.fails = k THEN Exc(cls, <<>>) ELSE NoExc

\* A reconnect that closes the connection whatever adb lists.
RestartClosingAlways(s, o) ==
    LET s1 == AdbForwardList(s, StepExc(o, 1, "AdbError"))
        s2 == IF Raised(s1) THEN s1
              ELSE CloseConnection(s1, StepExc(o, 2, "Error"))
        s3 == IF Raised(s2) THEN s2 ELSE PmClear(s2, StepExc(o, 3, "AdbError"))
        s4 == IF Raised(s3) THEN s3 ELSE StartServer(s3, StepExc(o, 4, "ServerStartError"))
    IN IF Raised(s4) THEN s4 ELSE MakeConnection(s4, StepExc(o, 5, "Error"), o.port)

\* SnippetClient._restart_snippet_connection
RestartSnippetConnection(s, o) ==
    LET s1 == AdbForwardList(s, StepExc(o, 1, "AdbError"))
        s2 == IF Raised(s1) THEN s1
              ELSE IF InSeq(s.hostPort, ListOccupiedAdbPorts(ForwardListOutput(s.forwards)))
                   THEN CloseConnection(s1, StepExc(o, 2, "Error"))
                   ELSE s1
        s3 == IF Raised(s2) THEN s2 ELSE PmClear(s2, StepExc(o, 3, "AdbError"))
        s4 == IF Raised(s3) THEN s3 ELSE StartServer(s3, StepExc(o, 4, "ServerStartError"))
    IN IF Raised(s4) THEN s4 ELSE MakeConnection(s4, StepExc(o, 5, "Error"), o.port)

\* super().send_rpc_request(request)
SuperSend(s, request, out) ==
    [s EXCEPT !.log = Append(@, Event("send", request, out)),
              !.exc = out.exc,
              !.ret = out.resp]

\* A variant that reconnects on every snippet error.
ReconnectsOnAnySnippetError(e) == IsSnippetError(e)

\* The except clause's test: the error is caught and not re-raised.
Reconnects(e) ==
    /\ IsSnippetError(e)
    /\ ~(~IsProtocolError(e) /\ ~HasSocketError(e))

\* A variant that reconnects and returns without sending again.
SendRpcRequestNoResend(s, request, first, o, second) ==
    LET s1 == SuperSend(s, request, first)
    IN IF ~Raised(s1) THEN s1
       ELSE IF ~Reconnects(s1.exc) THEN s1
       ELSE RestartSnippetConnection([s1 EXCEPT !.exc = NoExc], o)

\* A variant whose second send is the client's own send_rpc_request
\* instead of super()'s: a lost second send reconnects once more.
SendRpcRequestRetrying(s, request, first, o, second) ==
    LET s1 == SuperSend(s, request, first)
    IN IF ~Raised(s1) THEN s1
       ELSE IF ~Reconnects(s1.exc) THEN s1
       ELSE LET s2 == RestartSnippetConnection([s1 EXCEPT !.exc = NoExc], o)
                s3 == SuperSend(s2, request, second)
                s4 == RestartSnippetConnection([s3 EXCEPT !.exc = NoExc], o)
            IN IF Raised(s2) THEN s2
               ELSE IF ~Raised(s3) \/ ~Reconnects(s3.exc) THEN s3
               ELSE IF Raised(s4) THEN s4
               ELSE SuperSend(s4, request, second)

\* SnippetClient.send_rpc_request
SendRpcRequestImpl(s, request, first, o, second) ==
    LET s1 == SuperSend(s, request, first)
    IN IF ~Raised(s1) THEN s1
       ELSE IF ~Reconnects(s1.exc) THEN s1
       ELSE LET s2 == RestartSnippetConnection([s1 EXCEPT !.exc = NoExc], o)
            IN IF Raised(s2) THEN s2 ELSE SuperSend(s2, request, second)

SendRpcRequest(request, first, o, second) ==
    LET s0 == [hostPort |-> hostPort, forwards |-> forwards,
               connected |-> connected, log |-> <<>>, exc |-> NoExc,
               ret |-> NoResp]
        s == SendRpcRequestImpl(s0, request, first, o, second)
    IN /\ hostPort' = s.hostPort
       /\ forwards' = s.forwards
       /\ connected' = s.connected
       /\ clientCall' = [hostPort |-> hostPort, forwards |-> forwards]
       /\ clientLog' = s.log
       /\ clientResult' = [exc |-> s.exc, resp |-> s.ret]
       /\ UNCHANGED <<svcVars, objVars, utilVars>>

\* The adb server or the cable drops forwards behind the client's back: the
\* state 'host_port in _list_occupied_adb_ports' tests for.
DropForwards(fw) ==
    /\ fw \subseteq forwards
    /\ fw # forwards
    /\ forwards' = fw
    /\ connected' = FALSE
    /\ UNCHANGED <<hostPort, clientCall, clientLog, clientResult>>
    /\ UNCHANGED <<svcVars, objVars, utilVars>>

\* The outcomes a call does not consume are fixed, so that one call is one
\* transition.
ClientInputs(first, o, second) ==
    /\ first \in SendOutcomes
    /\ o \in RestartOutcomes
    /\ second \in SendOutcomes
    /\ ~Reconnects(first.exc) => (o = [fails |-> 0, port |-> 1] /\ second = first)
    /\ o.fails # 0 => second = first

ClientInit ==
    /\ SvcIdle
    /\ UtilIdle
    /\ ObjIdle
    /\ hostPort \in Ports
    /\ forwards = {hostPort}
    /\ connected = TRUE
    /\ clientCall = NoClientCall
    /\ clientLog = <<>>
    /\ clientResult = Done

ClientNext ==
    \/ \E request \in Requests, first \in SendOutcomes, o \in RestartOutcomes,
          second \in SendOutcomes :
          /\ ClientInputs(first, o, second)
          /\ SendRpcRequest(request, first, o, second)
    \/ \E fw \in SUBSET Ports : DropForwards(fw)

SpecClient == ClientInit /\ [][ClientNext]_vars

(***************************************************************************)
(* Claims about SnippetClient.send_rpc_request.                            *)
(***************************************************************************)
Sends == {i \in 1..Len(clientLog) : clientLog[i].op = "send"}

RestartSteps == {i \in 1..Len(clientLog) : clientLog[i].op # "send"}

RestartRaised == \E i \in RestartSteps : clientLog[i].out.exc # NoExc

FirstSendLost ==
    /\ Len(clientLog) >= 1
    /\ clientLog[1].op = "send"
    /\ LET e == clientLog[1].out.exc
       IN \/ e.cls = "ProtocolError"
          \/ e.cls \in SnippetErrorClasses /\ HasSocketError(e)

FirstSendRefused ==
    /\ Len(clientLog) >= 1
    /\ clientLog[1].op = "send"
    /\ LET e == clientLog[1].out.exc
       IN e.cls \in SnippetErrorClasses \ {"ProtocolError"} /\ ~HasSocketError(e)

\* C1: when the first send of a request raises a ProtocolError, or a snippet
\* Error whose message contains 'socket error', the client starts the restart
\* of the snippet connection; once the restart has run through (no step of it
\* raised) the identical request is sent a second time, after make_connection,
\* and the call ends as that second send ends: it returns its response.
C1_ReconnectThenResend ==
    FirstSendLost =>
        /\ Len(clientLog) >= 2
        /\ clientLog[2].op = "adb_forward_list"
        /\ ~RestartRaised =>
               LET n == Len(clientLog)
               IN /\ Sends = {1, n}
                  /\ n >= 5
                  /\ clientLog[n - 1].op = "make_connection"
                  /\ clientLog[n - 2].op = "start_server"
                  /\ clientLog[n - 3].op = "pm_clear"
                  /\ clientLog[n].req = clientLog[1].req
                  /\ clientResult = clientLog[n].out

\* A call whose first send was lost and whose second send returned r2: the
\* call returned r2.
C1_Witness ==
    /\ FirstSendLost
    /\ ~RestartRaised
    /\ Len(clientLog) >= 5
    /\ clientLog[Len(clientLog)].out = Returned("r2")
    /\ clientResult = Returned("r2")

\* C2: when the send raises a snippet Error that is not a ProtocolError and
\* whose message does not contain 'socket error', that same error reaches the
\* caller and nothing else was called: no reconnect step, no second send.
C2_OtherErrorPropagates ==
    FirstSendRefused =>
        /\ Len(clientLog) = 1
        /\ clientResult = clientLog[1].out

\* A call whose send raised Error('error socket closed'): the words are
\* there, 'socket error' is not.
C2_Witness ==
    /\ FirstSendRefused
    /\ clientLog[1].out.exc = Exc("Error", MsgErrorSocket)
    /\ clientResult.exc = Exc("Error", MsgErrorSocket)

\* The step that may come right before a step of the reconnect.
StepsBefore(op) ==
    CASE op = "adb_forward_list" -> {"send"}
      [] op = "close_connection" -> {"adb_forward_list"}
      [] op = "pm_clear" -> {"adb_forward_list", "close_connection"}
      [] op = "start_server" -> {"pm_clear"}
      [] op = "make_connection" -> {"start_server"}
      [] op = "send" -> {"make_connection"}

ClosedConnection ==
    \E i \in 1..Len(clientLog) : clientLog[i].op = "close_connection"

\* C19: in a reconnect, close_connection is called if and only if the
\* client's host port is among the host ports 'adb forward --list' lists;
\* the steps run in the order (close_connection,) pm clear, start_server,
\* make_connection, resend, each one after the one before it has returned,
\* so the request is never resent before make_connection has returned.
C19_ReconnectOrder ==
    Len(clientLog) >= 2 =>
        /\ clientLog[1].op = "send"
        /\ clientLog[2].op = "adb_forward_list"
        /\ clientLog[2].out.exc = NoExc =>
               (ClosedConnection <=>
                    clientCall.hostPort \in clientCall.forwards)
        /\ \A i \in 3..Len(clientLog) :
               /\ clientLog[i - 1].op \in StepsBefore(clientLog[i].op)
               /\ clientLog[i - 1].out.exc = NoExc
        /\ ~RestartRaised =>
               /\ clientLog[Len(clientLog)].op = "send"
               /\ clientLog[Len(clientLog)].req = clientLog[1].req

\* A reconnect of a client whose forward was gone: nothing is closed, and
\* the request is sent again after make_connection.
C19_Witness ==
    /\ clientCall.hostPort = 1
    /\ clientCall.forwards = {}
    /\ Len(clientLog) = 6
    /\ ~ClosedConnection
    /\ clientLog[5].op = "make_connection"
    /\ clientLog[6].op = "send"

Restarts == {i \in 1..Len(clientLog) : clientLog[i].op = "adb_forward_list"}

\* C20: one call of send_rpc_request sends at most twice and restarts the
\* connection at most once; an error raised by a step of the restart or by
\* the second send ends the call and reaches the caller, with no further
\* restart and no further send; the call makes at most seven external calls.
C20_BoundedRetry ==
    LET n == Len(clientLog)
    IN /\ Cardinality(Sends) <= 2
       /\ Cardinality(Restarts) <= 1
       /\ n <= 7
       /\ \A i \in 1..n :
              (i > 1 /\ clientLog[i].out.exc # NoExc) =>
                  /\ i = n
                  /\ clientResult.exc = clientLog[i].out.exc
       /\ Cardinality(Sends) = 2 =>
              /\ clientLog[n].op = "send"
              /\ clientResult = clientLog[n].out

\* The second send was lost as the first one was: the caller gets its
\* ProtocolError.
C20_Witness ==
    /\ FirstSendLost
    /\ Cardinality(Sends) = 2
    /\ clientLog[Len(clientLog)].op = "send"
    /\ clientLog[Len(clientLog)].out.exc.cls = "ProtocolError"
    /\ clientResult.exc.cls = "ProtocolError"

(***************************************************************************)
(* UiAutomatorService.  A package name is the sequence of its segments;    *)
(* the names of the universe differ in whole segments.  None is <<>>.      *)
(***************************************************************************)
SnippetPackage == <<"com", "snippet", "uiautomator">>
LongerPackage == <<"com", "snippet", "uiautomator", "test">>
OtherPackage == <<"com", "settings">>
NonePackage == <<>>

DevicePackages == {SnippetPackage, LongerPackage, OtherPackage}

\* The lines of 'pm list package'.
PmListOutput(pkgs) == {<<"package:">> \o n : n \in pkgs}

\* f'^package:{package_name}$'
PackagePattern(name) ==
    <<"package:">> \o (IF name = NonePackage THEN <<"None">> ELSE name)

\* A variant whose pattern is not anchored at the end of the line.
IsApkInstalledUnanchored(pkgs, name) ==
    \E line \in PmListOutput(pkgs) :
        /\ Len(line) >= Len(PackagePattern(name))
        /\ SubSeq(line, 1, Len(PackagePattern(name))) = PackagePattern(name)

\* UiAutomatorService._is_apk_installed, on the output of 'pm list package'
IsApkInstalled(pkgs, name) ==
    \E line \in PmListOutput(pkgs) : line = PackagePattern(name)

\* UiAutomatorService.is_alive; AndroidDevice registers the 'snippets'
\* service when it is built, so hasattr(services, 'snippets') holds.
IsAlive(ui, loaded) == ui.attached /\ loaded

\* The outcomes of start()'s external calls: call `fails` raises (0: none
\* does): 1 pm list, 2 adb uninstall, 3 adb install, 4 logcat -d,
\* 5 load_snippet, 6 setConfigurator.  When load_snippet raises
\* ServerStartProtocolError, `registered` is what
\* is_uiautomator_service_registered answers.
StartOutcomes == [fails : 0..6, registered : BOOLEAN]

\* The @property _is_apk_installed as a call: 'pm list package', then grep.
PmList(s, o) == Call(s, "pm_list", StepExc(o, 1, "AdbError"))

\* A variant that trusts skip_installing without looking at the device.
InstallApkTrustingSkip(s, o) ==
    LET s0 == Call(s, "_install_apk", NoExc)
    IN IF s.skip_installing THEN s0
       ELSE LET s1 == PmList(s0, o)
                s2 == IF Raised(s1) THEN s1
                      ELSE IF IsApkInstalled(s.packages, s.package_name)
                           THEN LET u == Call(s1, "adb_uninstall", StepExc(o, 2, "AdbError"))
                                IN IF Raised(u) THEN u
                                   ELSE [u EXCEPT !.packages = @ \ {s.package_name}]
                           ELSE s1
            IN IF Raised(s2) THEN s2
               ELSE LET i == Call(s2, "adb_install", StepExc(o, 3, "AdbError"))
                    IN IF Raised(i) THEN i
                       ELSE [i EXCEPT !.packages = @ \cup {SnippetPackage}]

\* UiAutomatorService._install_apk.  file_path is the snippet's apk:
\* installing it puts SnippetPackage on the device.
InstallApk(s, o) ==
    LET s0 == Call(s, "_install_apk", NoExc)
        s1 == PmList(s0, o)
    IN IF Raised(s1) THEN s1
       ELSE IF s.skip_installing
            THEN IF ~IsApkInstalled(s.packages, s.package_name)
                 THEN [s1 EXCEPT !.exc = Exc("ConfigurationError", <<"not", "installed">>)]
                 ELSE s1
            ELSE LET s2 == IF IsApkInstalled(s.packages, s.package_name)
                           THEN LET u == Call(s1, "adb_uninstall", StepExc(o, 2, "AdbError"))
                                IN IF Raised(u) THEN u
                                   ELSE [u EXCEPT !.packages = @ \ {s.package_name}]
                           ELSE s1
                 IN IF Raised(s2) THEN s2
                    ELSE LET i == Call(s2, "adb_install", StepExc(o, 3, "AdbError"))
                         IN IF Raised(i) THEN i
                            ELSE [i EXCEPT !.packages = @ \cup {SnippetPackage}]

\* UiAutomatorService._load_snippet
LoadSnippet(s, o) ==
    LET s0 == Call(s, "_load_snippet", NoExc)
    IN IF s.snippetLoaded THEN s0
       ELSE IF s.package_name = NonePackage
       THEN [s0 EXCEPT !.exc = Exc("ConfigurationError", <<"package", "name", "missing">>)]
       ELSE LET s1 == Call(s0, "logcat", StepExc(o, 4, "IndexError"))
            IN IF Raised(s1) THEN s1
               ELSE IF o.fails # 5
               THEN [Call(s1, "load_snippet", NoExc) EXCEPT
                        !.snippetLoaded = TRUE, !.snippetConnected = TRUE]
               ELSE LET s2 == Call(s1, "load_snippet", NoExc)
                        s3 == Call(s2, "logcat_errors", NoExc)
                    IN [s3 EXCEPT !.exc =
                           IF o.registered
                           THEN Exc("UiAutomationServiceAlreadyRegisteredError", <<>>)
                           ELSE Exc("ServerStartProtocolError", <<>>)]

\* UiAutomatorService._initial_uidevice
InitialUidevice(s, o) ==
    LET s0 == Call(s, "_initial_uidevice", NoExc)
        s1 == Call(s0, "setConfigurator", StepExc(o, 6, "Error"))
    IN IF Raised(s1) THEN s1
       ELSE [Call(s1, "setattr_ui", NoExc) EXCEPT
                !.uiDevice = [attached |-> TRUE, raise_error |-> s.raise_error]]

\* A variant that runs the steps whether or not the service is alive.
StartImplAlways(s, o) ==
    LET s1 == InstallApk(s, o)
        s2 == IF Raised(s1) THEN s1 ELSE LoadSnippet(s1, o)
        s3 == IF Raised(s2) THEN s2 ELSE InitialUidevice(s2, o)
    IN IF Raised(s3) THEN s3 ELSE [s3 EXCEPT !.skip_installing = TRUE]

\* A variant that sets skip_installing as soon as the apk is installed.
StartImplSkipEarly(s, o) ==
    IF IsAlive(s.uiDevice, s.snippetLoaded) THEN s
    ELSE LET s1 == InstallApk(s, o)
             s2 == IF Raised(s1) THEN s1
                   ELSE LoadSnippet([s1 EXCEPT !.skip_installing = TRUE], o)
         IN IF Raised(s2) THEN s2 ELSE InitialUidevice(s2, o)

\* UiAutomatorService.start
StartImpl(s, o) ==
    IF IsAlive(s.uiDevice, s.snippetLoaded) THEN s
    ELSE LET s1 == InstallApk(s, o)
             s2 == IF Raised(s1) THEN s1 ELSE LoadSnippet(s1, o)
             s3 == IF Raised(s2) THEN s2 ELSE InitialUidevice(s2, o)
         IN IF Raised(s3) THEN s3 ELSE [s3 EXCEPT !.skip_installing = TRUE]

\* The service and the device as a call finds them.
SvcNow ==
    [packages |-> packages, snippetLoaded |-> snippetLoaded,
     snippetConnected |-> snippetConnected,
     uiDevice |-> uiDevice, skip_installing |-> skip_installing,
     raise_error |-> raise_error, package_name |-> package_name,
     registered |-> registered,
     log |-> <<>>, exc |-> NoExc, ret |-> NoUi]

Found(op) ==
    [op |-> op, alive |-> IsAlive(uiDevice, snippetLoaded),
     packages |-> packages, snippetLoaded |-> snippetLoaded,
     snippetConnected |-> snippetConnected,
     uiDevice |-> uiDevice, skip_installing |-> skip_installing,
     registered |-> registered, configs |-> NoConfigs]

SvcReturnFrom(call, s) ==
    /\ packages' = s.packages
    /\ snippetLoaded' = s.snippetLoaded
    /\ snippetConnected' = s.snippetConnected
    /\ uiDevice' = s.uiDevice
    /\ skip_installing' = s.skip_installing
    /\ raise_error' = s.raise_error
    /\ package_name' = s.package_name
    /\ registered' = s.registered
    /\ svcCall' = call
    /\ svcLog' = s.log
    /\ svcResult' = s.exc
    /\ svcValue' = s.ret
    /\ UNCHANGED <<clientVars, objVars, utilVars>>

SvcReturn(op, s) == SvcReturnFrom(Found(op), s)

Start(o) == SvcReturn("start", StartImpl(SvcNow, o))

(***************************************************************************)
(* stop().  The stderr of an AdbError is a sequence of tokens: LISTENER is *)
(* "adb: error: listener 'tcp:", DIGIT one digit, NOTFOUND "' not found",  *)
(* NL a line feed, TEXT anything else.                                     *)
(***************************************************************************)
Stderrs ==
    {<<>>,
     <<"LISTENER", "DIGIT", "NOTFOUND", "NL">>,
     <<"LISTENER", "DIGIT", "DIGIT", "NOTFOUND", "NL">>,
     <<"LISTENER", "DIGIT", "NOTFOUND">>,
     <<"LISTENER", "NOTFOUND", "NL">>,
     <<"TEXT", "NL">>}

\* re.fullmatch(errors.REGEX_TCP_PORT_NOT_FOUND, stderr) is not None, the
\* pattern being  adb: error: listener 'tcp:(\d+)' not found\n  |  $
MatchesTcpPortNotFound(stderr) ==
    \/ /\ Len(stderr) >= 4
       /\ stderr[1] = "LISTENER"
       /\ \A i \in 2..(Len(stderr) - 2) : stderr[i] = "DIGIT"
       /\ stderr[Len(stderr) - 1] = "NOTFOUND"
       /\ stderr[Len(stderr)] = "NL"
    \/ stderr = <<>>

\* The outcomes of stop()'s external calls: whether 'pm list package'
\* raises; whether unload_snippet raises an AdbError, with which stderr, and
\* whether the snippet manager had dropped the client before it raised.
StopOutcomes ==
    [fails : 0..1, adbError : BOOLEAN, stderr : Stderrs, removed : BOOLEAN]

\* self._device.unload_snippet(self._service)
UnloadSnippet(s, o) ==
    IF ~o.adbError
    THEN [Call(s, "unload_snippet", NoExc) EXCEPT
             !.snippetLoaded = FALSE, !.snippetConnected = FALSE]
    ELSE [Call(s, "unload_snippet", Exc("AdbError", o.stderr)) EXCEPT
             !.snippetLoaded = ~o.removed, !.snippetConnected = FALSE]

\* A variant that unloads the snippet and leaves the attribute on the device.
StopKeepingAttribute(s, o) ==
    IF ~IsAlive(s.uiDevice, s.snippetLoaded) THEN s
    ELSE LET s1 == PmList(s, o)
         IN IF Raised(s1) THEN s1
            ELSE IF ~IsApkInstalled(s.packages, s.package_name) THEN s1
            ELSE LET s2 == UnloadSnippet(s1, o)
                 IN IF Raised(s2) /\ MatchesTcpPortNotFound(s2.exc.msg)
                    THEN [s2 EXCEPT !.exc = NoExc]
                    ELSE s2

\* UiAutomatorService.stop
StopImpl(s, o) ==
    IF ~IsAlive(s.uiDevice, s.snippetLoaded) THEN s
    ELSE LET s1 == PmList(s, o)
         IN IF Raised(s1) THEN s1
            ELSE IF ~IsApkInstalled(s.packages, s.package_name) THEN s1
            ELSE LET s2 == UnloadSnippet(s1, o)
                     s3 == IF Raised(s2) /\ MatchesTcpPortNotFound(s2.exc.msg)
                           THEN [s2 EXCEPT !.exc = NoExc]
                           ELSE s2
                 IN IF Raised(s3) THEN s3
                    ELSE IF s3.uiDevice.attached
                    THEN [Call(s3, "delattr_ui", NoExc) EXCEPT !.uiDevice = NoUi]
                    ELSE s3

Stop(o) == SvcReturn("stop", StopImpl(SvcNow, o))

(***************************************************************************)
(* load_uiautomator_service and unload_uiautomator_service.  The device's  *)
(* ServiceManager is Mobly's: register refuses an alias that is taken,     *)
(* builds the service from the configs, starts it and, when start()        *)
(* returned, keeps it under the alias; unregister drops the service and    *)
(* stops it if it is alive, recording what stop() raises instead of        *)
(* raising it.  The service the variables describe is the one built last.  *)
(***************************************************************************)
UiAutomatorConfigs ==
    [package_name : {SnippetPackage, NonePackage}, skip_installing : BOOLEAN,
     raise_error : BOOLEAN]

\* ad.services.unregister(ANDROID_SERVICE_NAME)
Unregister(s, o) ==
    LET s1 == Call(s, "unregister", NoExc)
        s2 == StopImpl([s1 EXCEPT !.registered = Tail(@)], o)
    IN [s2 EXCEPT !.exc = NoExc]

\* ad.services.register(ANDROID_SERVICE_NAME, service_class, configs)
Register(s, configs, o) ==
    LET s1 == Call(s, "register", NoExc)
        built == [s1 EXCEPT !.skip_installing = configs.skip_installing,
                            !.raise_error = configs.raise_error,
                            !.package_name = configs.package_name]
        s2 == StartImpl(built, o)
    IN IF s.registered # <<>>
       THEN [s1 EXCEPT !.exc = Exc("Error", <<"already", "registered">>)]
       ELSE IF Raised(s2) THEN s2
       ELSE [s2 EXCEPT !.registered = Append(@, configs)]

\* load_uiautomator_service registering without a look at the registry
LoadWithoutUnregister(s, configs, oStop, oStart) == Register(s, configs, oStart)

\* load_uiautomator_service
LoadImpl(s, configs, oStop, oStart) ==
    LET s1 == IF s.registered # <<>> THEN Unregister(s, oStop) ELSE s
    IN Register(s1, configs, oStart)

\* unload_uiautomator_service
UnloadImpl(s, oStop) ==
    IF s.registered # <<>> THEN Unregister(s, oStop) ELSE s

LoadUiautomatorService(configs, oStop, oStart) ==
    SvcReturnFrom([Found("load") EXCEPT !.configs = configs],
                  LoadImpl(SvcNow, configs, oStop, oStart))

UnloadUiautomatorService(oStop) ==
    SvcReturn("unload", UnloadImpl(SvcNow, oStop))

\* ui_device without the test of is_alive
UiDeviceUnguarded(s) ==
    IF ~s.uiDevice.attached
    THEN [s EXCEPT !.exc = Exc("ConfigurationError",
                               <<"Missing", "UiDevice", "instance">>)]
    ELSE [s EXCEPT !.ret = s.uiDevice]

\* UiAutomatorService.ui_device; getattr(device, name, None) is None when
\* the attribute is not there.
UiDeviceImpl(s) ==
    IF ~IsAlive(s.uiDevice, s.snippetLoaded)
    THEN [s EXCEPT !.exc = Exc("ConfigurationError",
                               <<"service", "is", "not", "running">>)]
    ELSE IF ~s.uiDevice.attached
    THEN [s EXCEPT !.exc = Exc("ConfigurationError",
                               <<"Missing", "UiDevice", "instance">>)]
    ELSE [s EXCEPT !.ret = s.uiDevice]

ReadUiDevice == SvcReturn("ui_device", UiDeviceImpl(SvcNow))

(***************************************************************************)
(* pause() and resume().  close_connection and restore_server_connection   *)
(* are calls on the snippet client and either may raise; a client whose    *)
(* close_connection raised has no usable connection left.                  *)
(***************************************************************************)
PauseOutcomes == [fails : 0..1]

\* UiAutomatorService.pause
PauseImpl(s, o) ==
    IF IsAlive(s.uiDevice, s.snippetLoaded)
    THEN [Call(s, "close_connection", StepExc(o, 1, "Error")) EXCEPT
             !.snippetConnected = FALSE]
    ELSE s

Pause(o) == SvcReturn("pause", PauseImpl(SvcNow, o))

\* UiAutomatorService.resume.  With no snippet client, get_snippet_client
\* returns None and the call on it raises AttributeError.
ResumeImpl(s, o) ==
    IF IsAlive(s.uiDevice, s.snippetLoaded) THEN s
    ELSE IF ~s.snippetLoaded
    THEN [s EXCEPT !.exc = Exc("AttributeError", <<>>)]
    ELSE LET s1 == Call(s, "restore_server_connection", StepExc(o, 1, "Error"))
         IN IF Raised(s1) THEN s1 ELSE [s1 EXCEPT !.snippetConnected = TRUE]

Resume(o) == SvcReturn("resume", ResumeImpl(SvcNow, o))

\* Someone else changes the device's packages: the case stop() logs as
\* 'package ... was uninstalled before stopping the service'.  The record
\* of the last call is of no use after it and is dropped.
PackagesChange(pkgs) ==
    /\ pkgs # packages
    /\ packages' = pkgs
    /\ svcCall' = NoCall
    /\ svcLog' = <<>>
    /\ svcResult' = NoExc
    /\ svcValue' = NoUi
    /\ UNCHANGED <<snippetLoaded, snippetConnected, uiDevice, skip_installing,
                   raise_error, package_name, registered>>
    /\ UNCHANGED <<clientVars, objVars, utilVars>>

\* The outcomes a call does not consume are fixed.
StartInputs(o) ==
    /\ o \in StartOutcomes
    /\ o.fails # 5 => ~o.registered

StopInputs(o) ==
    /\ o \in StopOutcomes
    /\ ~o.adbError => (o.stderr = <<>> /\ o.removed)
    /\ o.fails # 0 => ~o.adbError

\* A service built on a device: the attribute is not there yet; a snippet
\* client may be (custom_service_name names a client loaded by someone else).
ServiceInit ==
    /\ ClientIdle
    /\ UtilIdle
    /\ ObjIdle
    /\ packages \in SUBSET DevicePackages
    /\ snippetLoaded \in BOOLEAN
    /\ snippetConnected = snippetLoaded
    /\ uiDevice = NoUi
    /\ skip_installing \in BOOLEAN
    /\ raise_error \in BOOLEAN
    /\ package_name \in {SnippetPackage, NonePackage}
    /\ registered = <<>>
    /\ svcCall = NoCall
    /\ svcLog = <<>>
    /\ svcResult = NoExc
    /\ svcValue = NoUi

\* unregister stops a registered service that is alive, and whatever stop()
\* raises is recorded, not raised: one stderr stands for all.
UnregisterInputs(o) ==
    /\ StopInputs(o)
    /\ o.adbError => o.stderr = <<"TEXT", "NL">>
    /\ (registered = <<>> \/ ~IsAlive(uiDevice, snippetLoaded)) =>
           (o.fails = 0 /\ ~o.adbError)

ServiceNext ==
    \/ \E o \in StartOutcomes : StartInputs(o) /\ Start(o)
    \/ \E o \in StopOutcomes : StopInputs(o) /\ Stop(o)
    \/ ReadUiDevice
    \/ \E o \in PauseOutcomes : Pause(o)
    \/ \E o \in PauseOutcomes : Resume(o)
    \/ \E pkgs \in SUBSET DevicePackages : PackagesChange(pkgs)

SpecService == ServiceInit /\ [][ServiceNext]_vars

\* Any sequence of load_uiautomator_service and unload_uiautomator_service
\* calls on one device.
RegistryNext ==
    \/ \E configs \in UiAutomatorConfigs, oStop \in StopOutcomes,
          oStart \in StartOutcomes :
          /\ UnregisterInputs(oStop)
          /\ StartInputs(oStart)
          /\ LoadUiautomatorService(configs, oStop, oStart)
    \/ \E oStop \in StopOutcomes :
          /\ UnregisterInputs(oStop)
          /\ UnloadUiautomatorService(oStop)

SpecRegistry == ServiceInit /\ [][RegistryNext]_vars

(***************************************************************************)
(* Claims about UiAutomatorService.start.                                  *)
(***************************************************************************)
At(op) == {i \in 1..Len(svcLog) : svcLog[i].op = op}

Ran(op) == At(op) # {}

Before(a, b) == \A i \in At(a), j \in At(b) : i < j

CallRaised == \E i \in 1..Len(svcLog) : svcLog[i].out.exc # NoExc

ColdStart == svcCall.op = "start" /\ ~svcCall.alive

WarmStart == svcCall.op = "start" /\ svcCall.alive

\* The configured package is a line of the package list the call found.
InPackageList == package_name \in svcCall.packages

\* C3: start() on a service that is not alive runs the install step, then
\* the load step, then the UiDevice initialisation (setConfigurator, then
\* the attribute is set), each at most once and none without the one before;
\* skip_installing becomes True only in a call that raised nothing and set
\* the attribute; a call that raised ends at the call that raised, sets no
\* attribute and leaves skip_installing as it found it.
C3_StartOrder ==
    ColdStart =>
        /\ At("_install_apk") = {1}
        /\ \A op \in {"_load_snippet", "_initial_uidevice", "setConfigurator",
                      "setattr_ui"} : Cardinality(At(op)) <= 1
        /\ Before("_install_apk", "_load_snippet")
        /\ Before("_load_snippet", "_initial_uidevice")
        /\ Before("_initial_uidevice", "setConfigurator")
        /\ Before("setConfigurator", "setattr_ui")
        /\ Ran("_initial_uidevice") => Ran("_load_snippet")
        /\ Ran("setConfigurator") => Ran("_initial_uidevice")
        /\ Ran("setattr_ui") => Ran("setConfigurator")
        /\ svcResult = NoExc =>
               /\ Ran("setattr_ui")
               /\ uiDevice.attached
               /\ skip_installing = TRUE
        /\ svcResult # NoExc =>
               /\ ~Ran("setattr_ui")
               /\ uiDevice = svcCall.uiDevice
               /\ skip_installing = svcCall.skip_installing
               /\ \A i \in 1..Len(svcLog) :
                      svcLog[i].out.exc # NoExc => i = Len(svcLog)
        /\ skip_installing # svcCall.skip_installing =>
               svcResult = NoExc /\ Ran("setattr_ui")

\* A start that found the package installed and skip_installing False, and
\* ran all ten steps and calls.
C3_Witness ==
    /\ ColdStart
    /\ ~svcCall.skip_installing
    /\ svcResult = NoExc
    /\ Len(svcLog) = 10
    /\ svcLog[3].op = "adb_uninstall"
    /\ svcLog[10].op = "setattr_ui"
    /\ skip_installing

\* C4: start() on a service that is alive changes nothing: no call is made
\* (no adb install or uninstall, no snippet load, no setConfigurator, no new
\* UiDevice) and skip_installing, the device and the attribute stay as found.
C4_StartAliveNoop ==
    WarmStart =>
        /\ svcLog = <<>>
        /\ svcResult = NoExc
        /\ skip_installing = svcCall.skip_installing
        /\ uiDevice = svcCall.uiDevice
        /\ snippetLoaded = svcCall.snippetLoaded
        /\ packages = svcCall.packages

\* A start on an alive service whose package is on the device.
C4_Witness ==
    /\ WarmStart
    /\ uiDevice.attached
    /\ SnippetPackage \in packages

\* C5 as stated: with skip_installing True, start() issues no adb install or
\* uninstall, and if the configured package is not in the package list (and
\* no external call raised) it raises ConfigurationError with no snippet
\* loaded and no UiDevice attached by the call.
C5_AsStated ==
    (svcCall.op = "start" /\ svcCall.skip_installing) =>
        /\ ~Ran("adb_install")
        /\ ~Ran("adb_uninstall")
        /\ (package_name = SnippetPackage /\ ~InPackageList /\ ~CallRaised) =>
               /\ svcResult.cls = "ConfigurationError"
               /\ ~Ran("load_snippet")
               /\ ~Ran("setattr_ui")

\* C5, amended: with skip_installing True, start() issues no adb install or
\* uninstall; on a service that is not alive it lists the packages and, if
\* the package is not among them, raises ConfigurationError right after the
\* listing: no snippet is loaded, no UiDevice attached.
C5_SkipInstalling ==
    (svcCall.op = "start" /\ svcCall.skip_installing) =>
        /\ ~Ran("adb_install")
        /\ ~Ran("adb_uninstall")
        /\ (~svcCall.alive /\ ~InPackageList /\ ~CallRaised) =>
               /\ svcResult.cls = "ConfigurationError"
               /\ Len(svcLog) = 2
               /\ svcLog[2].op = "pm_list"
               /\ ~Ran("load_snippet")
               /\ ~Ran("setattr_ui")
               /\ uiDevice = svcCall.uiDevice
               /\ snippetLoaded = svcCall.snippetLoaded

\* A start with skip_installing True, a package name configured and only
\* other packages on the device: ConfigurationError.
C5_Witness ==
    /\ ColdStart
    /\ svcCall.skip_installing
    /\ package_name = SnippetPackage
    /\ svcCall.packages = {LongerPackage, OtherPackage}
    /\ svcResult.cls = "ConfigurationError"
    /\ Len(svcLog) = 2

\* C6: with skip_installing False the install step issues at most one adb
\* uninstall and at most one adb install, the uninstall before the install;
\* the uninstall is issued if and only if the listing succeeded and the
\* package is in the package list; the install is issued unless the listing
\* or the uninstall raised, so a step that completes issued exactly one.
C6_InstallStep ==
    (ColdStart /\ ~svcCall.skip_installing) =>
        /\ Cardinality(At("adb_install")) <= 1
        /\ Cardinality(At("adb_uninstall")) <= 1
        /\ Before("adb_uninstall", "adb_install")
        /\ svcLog[2].op = "pm_list"
        /\ Ran("adb_uninstall") <=> (svcLog[2].out.exc = NoExc /\ InPackageList)
        /\ Ran("adb_install") <=>
               /\ svcLog[2].out.exc = NoExc
               /\ \A i \in At("adb_uninstall") : svcLog[i].out.exc = NoExc
        /\ Ran("_load_snippet") => Cardinality(At("adb_install")) = 1

\* An install step that found the package, uninstalled it and installed the
\* apk.
C6_Witness ==
    /\ ColdStart
    /\ ~svcCall.skip_installing
    /\ InPackageList
    /\ At("adb_uninstall") = {3}
    /\ At("adb_install") = {4}
    /\ Ran("_load_snippet")

(***************************************************************************)
(* Claims about UiAutomatorService.ui_device.                              *)
(***************************************************************************)
\* C14: ui_device raises ConfigurationError whenever the service is not
\* alive; when it is alive it returns the UiDevice attached to the device;
\* reading it changes nothing of the service or the device.
C14_UiDevice ==
    svcCall.op = "ui_device" =>
        /\ ~(svcCall.uiDevice.attached /\ svcCall.snippetLoaded) =>
               svcResult.cls = "ConfigurationError"
        /\ (svcCall.uiDevice.attached /\ svcCall.snippetLoaded) =>
               /\ svcResult = NoExc
               /\ svcValue = svcCall.uiDevice
               /\ svcValue.attached
        /\ packages = svcCall.packages
        /\ snippetLoaded = svcCall.snippetLoaded
        /\ uiDevice = svcCall.uiDevice
        /\ skip_installing = svcCall.skip_installing

\* ui_device read on a service whose snippet client is gone while the
\* UiDevice is still attached.
C14_Witness ==
    /\ svcCall.op = "ui_device"
    /\ svcCall.uiDevice.attached
    /\ ~svcCall.snippetLoaded
    /\ svcResult.cls = "ConfigurationError"

(***************************************************************************)
(* Claims about load_uiautomator_service and unload_uiautomator_service.   *)
(***************************************************************************)
\* C15: after any sequence of load and unload calls at most one service is
\* registered as 'uiautomator'; a load that finds a registration
\* unregisters it before it registers, and a load that returns leaves the
\* service of the new configs registered; an unload that finds no
\* registration calls nothing, raises nothing and changes nothing.
C15_OneRegistration ==
    /\ Len(registered) <= 1
    /\ svcCall.op = "load" =>
           /\ svcCall.registered # <<>> =>
                  /\ Len(svcLog) >= 1
                  /\ svcLog[1].op = "unregister"
                  /\ Before("unregister", "register")
           /\ svcCall.registered = <<>> => ~Ran("unregister")
           /\ Ran("register")
           /\ svcResult = NoExc => registered = <<svcCall.configs>>
    /\ (svcCall.op = "unload" /\ svcCall.registered = <<>>) =>
           /\ svcLog = <<>>
           /\ svcResult = NoExc
           /\ registered = <<>>
           /\ packages = svcCall.packages
           /\ snippetLoaded = svcCall.snippetLoaded
           /\ uiDevice = svcCall.uiDevice

\* A second load, with other configs than the first: the first service was
\* unregistered and the second one is the one registered.
C15_Witness ==
    /\ svcCall.op = "load"
    /\ svcCall.registered # <<>>
    /\ svcCall.registered # <<svcCall.configs>>
    /\ svcResult = NoExc
    /\ registered = <<svcCall.configs>>

(***************************************************************************)
(***************************************************************************)
(* Claims about UiAutomatorService.stop, pause and resume.                 *)
(***************************************************************************)
\* stop() was called on a service that was alive and returned normally.
StoppedAlive == svcCall.op = "stop" /\ svcCall.alive /\ svcResult = NoExc

\* C21 as stated: after stop() returns without raising on a service that
\* was alive, the device no longer carries the UiDevice attribute and
\* is_alive is False.
C21_AsStated ==
    StoppedAlive =>
        /\ ~uiDevice.attached
        /\ ~(uiDevice.attached /\ snippetLoaded)

\* C21: after stop() returns without raising on a service that was alive
\* and whose snippet package was still in the device's package list, the
\* device no longer carries the UiDevice attribute and is_alive is False.
C21_Stopped ==
    (StoppedAlive /\ InPackageList) =>
        /\ ~uiDevice.attached
        /\ ~(uiDevice.attached /\ snippetLoaded)

C21_Witness ==
    /\ StoppedAlive
    /\ InPackageList
    /\ svcCall.uiDevice.attached
    /\ ~uiDevice.attached
    /\ Ran("delattr_ui")

\* The stderr values that are the message "adb: error: listener
\* 'tcp:<port>' not found" followed by a line feed.
ListenerNotFound ==
    {<<"LISTENER", "DIGIT", "NOTFOUND", "NL">>,
     <<"LISTENER", "DIGIT", "DIGIT", "NOTFOUND", "NL">>}

\* The AdbErrors unload_snippet raised in the last call.
UnloadErrors ==
    {svcLog[i].out.exc : i \in {j \in At("unload_snippet") :
                                    svcLog[j].out.exc.cls = "AdbError"}}

\* C23: in stop(), an AdbError raised while unloading the snippet is
\* swallowed only when its stderr is exactly the listener-not-found message
\* followed by a line feed, and then the UiDevice attribute is still
\* removed; an AdbError with any other stderr is re-raised and the
\* attribute is left in place.
C23_Swallowed ==
    svcCall.op = "stop" =>
        \A e \in UnloadErrors :
            IF e.msg \in ListenerNotFound
            THEN svcResult = NoExc /\ ~uiDevice.attached
            ELSE svcResult = e /\ uiDevice = svcCall.uiDevice
                              /\ uiDevice.attached

\* C22: after start() followed by pause() on a service, resume() calls
\* restore_server_connection on the snippet client, so the connection that
\* pause() closed is open again.  The step is a resume() that follows a
\* pause() which found the service alive, as start() leaves it, and closed
\* the connection.
C22_Resume ==
    [][(/\ svcCall.op = "pause"
        /\ svcCall.alive
        /\ svcResult = NoExc
        /\ ~snippetConnected
        /\ svcCall'.op = "resume")
       => /\ \E i \in 1..Len(svcLog') :
                 svcLog'[i].op = "restore_server_connection"
          /\ (svcResult' = NoExc => snippetConnected')]_vars

(* BySelector.  _selector is a dictionary whose values are strings or      *)
(* dictionaries; _bottom refers to a dictionary inside it and is kept as   *)
(* the path of keys that leads there.                                      *)
(***************************************************************************)
MaxDepth == 2

\* A variant of the tuple that lacks 'top'.
SubselectorWithoutTop == {"child", "parent", "sibling", "bottom", "left", "right"}

\* BySelector.SUBSELECTOR
SUBSELECTOR == {"child", "parent", "sibling", "bottom", "left", "right", "top"}

\* d[k] = v
Put(d, k, v) == [x \in DOMAIN d \cup {k} |-> IF x = k THEN v ELSE d[x]]

RECURSIVE GetAt(_, _)
GetAt(d, path) ==
    IF path = <<>> THEN d ELSE GetAt(d[Head(path)].sub, Tail(path))

\* The dictionary at `path` gets d[k] = v.
RECURSIVE PutAt(_, _, _, _)
PutAt(d, path, k, v) ==
    IF path = <<>> THEN Put(d, k, v)
    ELSE Put(d, Head(path), DictEntry(PutAt(d[Head(path)].sub, Tail(path), k, v)))

\* The keyword arguments of the model.
TextA == [k \in {"text"} |-> StrEntry("a")]

Criteria ==
    {EmptyDict,
     TextA,
     [k \in {"text", "child"} |->
         IF k = "text" THEN StrEntry("b") ELSE DictEntry(TextA)]}

AppendKwargs ==
    {EmptyDict,
     TextA,
     [k \in {"text", "parent"} |-> StrEntry("a")]}

\* The names append is called with: all of SUBSELECTOR and two others where
\* the selector is the subject, a few where the object's operations are.
AppendNames ==
    {"child", "parent", "sibling", "bottom", "left", "right", "top",
     "descendant", "text"}

ObjectNames == {"child", "parent", "descendant"}

\* BySelector.__init__
BySelectorInit(kwargs) == [selector |-> kwargs, bottom |-> <<>>, exc |-> "None"]

\* A variant that stores every sub-selector in the top dictionary.
AppendAtTop(b, name, kwargs) ==
    IF name \notin SUBSELECTOR THEN [b EXCEPT !.exc = "SelectorError"]
    ELSE IF \E key \in DOMAIN kwargs : key \in SUBSELECTOR
    THEN [b EXCEPT !.exc = "SelectorError"]
    ELSE [selector |-> Put(b.selector, name, DictEntry(kwargs)),
          bottom |-> Append(b.bottom, name),
          exc |-> "None"]

\* BySelector.append
BySelectorAppend(b, name, kwargs) ==
    IF name \notin SUBSELECTOR THEN [b EXCEPT !.exc = "SelectorError"]
    ELSE IF \E key \in DOMAIN kwargs : key \in SUBSELECTOR
    THEN [b EXCEPT !.exc = "SelectorError"]
    ELSE [selector |-> PutAt(b.selector, b.bottom, name, DictEntry(kwargs)),
          bottom |-> Append(b.bottom, name),
          exc |-> "None"]

\* BySelector.to_dict
ToDict(b) == b.selector

\* BySelector.is_nested
IsNested(b) == \E k \in DOMAIN b.selector : b.selector[k].isDict

(***************************************************************************)
(* UiObject2.  An RPC answers "true" or "false", or raises ("error").      *)
(***************************************************************************)
RpcAnswers == {"true", "false", "error"}

Rpc(name, sel) == [rpc |-> name, selector |-> sel]

\* What an operation returns once its RPC has answered.
Answer(rpc, onFalse) ==
    IF rpc = "error" THEN Result("raise", FALSE, "Error")
    ELSE IF rpc = "true" THEN Result("return", TRUE, "None")
    ELSE onFalse

SearchError == Result("raise", FALSE, "UiObjectSearchError")

\* UiObject2.exists
Exists(objRaiseError, rpc) ==
    Answer(rpc, IF objRaiseError THEN SearchError
                ELSE Result("return", FALSE, "None"))

\* _Wait.exists; the _Wait holds the object's raise_error.
WaitExists(objRaiseError, argRaiseError, rpc) ==
    Answer(rpc, IF objRaiseError \/ argRaiseError THEN SearchError
                ELSE Result("return", FALSE, "None"))

\* A variant that looks at the object's raise_error only.
WaitGoneIgnoringArgument(objRaiseError, argRaiseError, rpc) ==
    Answer(rpc, IF objRaiseError THEN SearchError
                ELSE Result("return", FALSE, "None"))

\* _Wait.gone
WaitGone(objRaiseError, argRaiseError, rpc) ==
    Answer(rpc, IF objRaiseError \/ argRaiseError THEN SearchError
                ELSE Result("return", FALSE, "None"))

ObjNow == [selector |-> selector, bottom |-> bottom, exc |-> "None"]

ObjFound(op, name, kwargs, rpc, argRaiseError) ==
    [op |-> op, name |-> name, kwargs |-> kwargs, selector |-> selector,
     bottom |-> bottom, rpc |-> rpc, raise_error |-> argRaiseError,
     args |-> NoArgs]

\* UiDevice.__call__(**kwargs): a new UiObject2 on a new BySelector, with
\* the UiDevice's raise_error.
NewObject(kwargs, raiseError) ==
    LET b == BySelectorInit(kwargs)
    IN /\ selector' = b.selector
       /\ bottom' = b.bottom
       /\ objRaise' = raiseError
       /\ criteria' = kwargs
       /\ appended' = <<>>
       /\ objCall' = ObjFound("new", "", kwargs, "none", FALSE)
       /\ UNCHANGED watcher
       /\ helper' = NoHelper
       /\ objLog' = <<>>
       /\ objResult' = Result("return", FALSE, "None")
       /\ UNCHANGED <<clientVars, svcVars, utilVars>>

\* UiObject2.parent, child, sibling, bottom, left, right, top, and
\* BySelector.append with any other name.
Navigate(name, kwargs) ==
    LET b == BySelectorAppend(ObjNow, name, kwargs)
    IN /\ b.exc = "None" => Len(bottom) < MaxDepth
       /\ selector' = b.selector
       /\ bottom' = b.bottom
       /\ appended' = IF b.exc = "None"
                      THEN Append(appended, [name |-> name, kwargs |-> kwargs])
                      ELSE appended
       /\ objCall' = ObjFound("append", name, kwargs, "none", FALSE)
       /\ objLog' = <<>>
       /\ objResult' = IF b.exc = "None" THEN Result("return", FALSE, "None")
                       ELSE Result("raise", FALSE, b.exc)
       /\ UNCHANGED <<objRaise, criteria, watcher, helper>>
       /\ UNCHANGED <<clientVars, svcVars, utilVars>>

\* An operation of one RPC on the object's selector.
ObjOperation(op, rpcName, rpc, argRaiseError, result) ==
    /\ objCall' = ObjFound(op, "", EmptyDict, rpc, argRaiseError)
    /\ objLog' = <<Rpc(rpcName, ToDict(ObjNow))>>
    /\ objResult' = result
    /\ UNCHANGED <<selector, bottom, objRaise, criteria, appended, watcher,
                   helper>>
    /\ UNCHANGED <<clientVars, svcVars, utilVars>>

ObjExists(rpc) ==
    ObjOperation("exists", "exists", rpc, FALSE, Exists(objRaise, rpc))

ObjWaitExists(rpc, argRaiseError) ==
    ObjOperation("wait.exists", "waitForExists", rpc, argRaiseError,
                 WaitExists(objRaise, argRaiseError, rpc))

ObjWaitGone(rpc, argRaiseError) ==
    ObjOperation("wait.gone", "waitUntilGone", rpc, argRaiseError,
                 WaitGone(objRaise, argRaiseError, rpc))

ObjectInit ==
    /\ ClientIdle
    /\ UtilIdle
    /\ SvcIdle
    /\ selector \in Criteria
    /\ bottom = <<>>
    /\ objRaise \in BOOLEAN
    /\ criteria = selector
    /\ appended = <<>>
    /\ watcher = NewWatcher("")
    /\ helper = NoHelper
    /\ objCall = NoObjCall
    /\ objLog = <<>>
    /\ objResult = Result("return", FALSE, "None")

ObjectNext ==
    \/ \E kwargs \in Criteria, raiseError \in BOOLEAN : NewObject(kwargs, raiseError)
    \/ \E name \in ObjectNames, kwargs \in AppendKwargs : Navigate(name, kwargs)
    \/ \E rpc \in RpcAnswers : ObjExists(rpc)
    \/ \E rpc \in RpcAnswers, argRaiseError \in BOOLEAN : ObjWaitExists(rpc, argRaiseError)
    \/ \E rpc \in RpcAnswers, argRaiseError \in BOOLEAN : ObjWaitGone(rpc, argRaiseError)

SpecObject == ObjectInit /\ [][ObjectNext]_vars

\* The BySelector alone: built, then appended to.
SelectorInit == ObjectInit /\ objRaise = FALSE

SelectorNext ==
    \/ \E kwargs \in Criteria : NewObject(kwargs, FALSE)
    \/ \E name \in AppendNames, kwargs \in AppendKwargs : Navigate(name, kwargs)

SpecSelector == SelectorInit /\ [][SelectorNext]_vars

(***************************************************************************)
(* UiObject2.drag and UiObject2.scroll.<direction>.                        *)
(***************************************************************************)
Coordinates == {None, Some(0), Some(7)}
Speeds == {None, Some(100)}
Percents == {None, Some(0), Some(50)}
Directions == {"DOWN", "LEFT", "RIGHT", "UP"}

RpcWith(name, sel, args) == [rpc |-> name, selector |-> sel, args |-> args]

\* What a gesture gives back: the RPCs it issued and its result.
Issued(rpc, answer) ==
    [log |-> <<rpc>>, result |-> Answer(answer, Result("return", FALSE, "None"))]

ApiError == [log |-> <<>>, result |-> Result("raise", FALSE, "ApiError")]

\* _Drag.to accepting a single coordinate
DragToEitherCoordinate(sel, x, y, speed, kwargs, answer) ==
    IF x = None /\ y = None /\ kwargs # EmptyDict
    THEN Issued(RpcWith("dragObjToObj", sel,
                        [dest |-> ToDict(BySelectorInit(kwargs)),
                         speed |-> speed]), answer)
    ELSE IF (x # None \/ y # None) /\ kwargs = EmptyDict
    THEN Issued(RpcWith("dragObj", sel, [x |-> x, y |-> y, speed |-> speed]),
                answer)
    ELSE ApiError

\* _Drag.to
DragTo(sel, x, y, speed, kwargs, answer) ==
    IF x = None /\ y = None /\ kwargs # EmptyDict
    THEN Issued(RpcWith("dragObjToObj", sel,
                        [dest |-> ToDict(BySelectorInit(kwargs)),
                         speed |-> speed]), answer)
    ELSE IF x # None /\ y # None /\ kwargs = EmptyDict
    THEN Issued(RpcWith("dragObj", sel, [x |-> x, y |-> y, speed |-> speed]),
                answer)
    ELSE ApiError

\* _Drag.__call__
DragCall(sel, x, y, speed, kwargs, answer) ==
    DragTo(sel, x, y, speed, kwargs, answer)

\* _Scroll._To.__call__ taking a speed without a percent for no argument
ScrollIgnoringSpeed(sel, direction, percent, speed, kwargs, answer) ==
    IF percent = None
    THEN IF kwargs # EmptyDict
         THEN Issued(RpcWith("scrollUntil", sel,
                             [kwargs |-> kwargs, direction |-> direction]),
                     answer)
         ELSE Issued(RpcWith("scrollUntilFinished", sel,
                             [direction |-> direction]), answer)
    ELSE IF percent # None /\ kwargs = EmptyDict
    THEN Issued(RpcWith("scroll", sel,
                        [direction |-> direction, percent |-> percent,
                         speed |-> speed]), answer)
    ELSE ApiError

\* _Scroll._To.__call__
ScrollTo(sel, direction, percent, speed, kwargs, answer) ==
    IF percent = None /\ speed = None
    THEN IF kwargs # EmptyDict
         THEN Issued(RpcWith("scrollUntil", sel,
                             [kwargs |-> kwargs, direction |-> direction]),
                     answer)
         ELSE Issued(RpcWith("scrollUntilFinished", sel,
                             [direction |-> direction]), answer)
    ELSE IF percent # None /\ kwargs = EmptyDict
    THEN Issued(RpcWith("scroll", sel,
                        [direction |-> direction, percent |-> percent,
                         speed |-> speed]), answer)
    ELSE ApiError

\* A gesture on the object: the selector is read, not changed.
Gesture(op, args, kwargs, answer, done) ==
    /\ objCall' = [ObjFound(op, "", kwargs, answer, FALSE) EXCEPT !.args = args]
    /\ objLog' = done.log
    /\ objResult' = done.result
    /\ UNCHANGED <<selector, bottom, objRaise, criteria, appended, watcher,
                   helper>>
    /\ UNCHANGED <<clientVars, svcVars, utilVars>>

\* UiObject2.drag(...) and UiObject2.drag.to(...)
Drag(op, x, y, speed, kwargs, answer) ==
    /\ op \in {"drag", "drag.to"}
    /\ Gesture(op, [NoArgs EXCEPT !.x = x, !.y = y, !.speed = speed], kwargs,
               answer,
               IF op = "drag"
               THEN DragCall(ToDict(ObjNow), x, y, speed, kwargs, answer)
               ELSE DragTo(ToDict(ObjNow), x, y, speed, kwargs, answer))

\* UiObject2.scroll.<direction>(...)
Scroll(direction, percent, speed, kwargs, answer) ==
    Gesture("scroll",
            [NoArgs EXCEPT !.direction = direction, !.percent = percent,
                           !.speed = speed],
            kwargs, answer,
            ScrollTo(ToDict(ObjNow), direction, percent, speed, kwargs, answer))

\* "if first: return click; return False": the click RPC is issued when the
\* first RPC has returned True, and its answer is the result.
ThenClick(first, firstAnswer, click, clickAnswer) ==
    IF firstAnswer = "true"
    THEN [log |-> <<first, click>>,
          result |-> Answer(clickAnswer, Result("return", FALSE, "None"))]
    ELSE Issued(first, firstAnswer)

\* A variant that raises UiObjectSearchError like wait.exists.
WaitClickSearching(objRaiseError, sel, firstAnswer, clickAnswer) ==
    IF firstAnswer = "false" /\ objRaiseError
    THEN [log |-> <<Rpc("waitForExists", sel)>>, result |-> SearchError]
    ELSE ThenClick(Rpc("waitForExists", sel), firstAnswer,
                   Rpc("clickObj", sel), clickAnswer)

\* _Wait.click; the _Wait holds the object's raise_error and click does not
\* read it.
WaitClick(objRaiseError, sel, firstAnswer, clickAnswer) ==
    ThenClick(Rpc("waitForExists", sel), firstAnswer,
              Rpc("clickObj", sel), clickAnswer)

\* _Scroll._To.click: the click is on the criteria scrolled to.
ScrollClick(sel, direction, kwargs, firstAnswer, clickAnswer) ==
    IF kwargs = EmptyDict THEN ApiError
    ELSE LET scrolled == ScrollTo(sel, direction, None, None, kwargs, firstAnswer)
         IN ThenClick(scrolled.log[1], firstAnswer,
                      Rpc("clickObj", kwargs), clickAnswer)

\* UiObject2.wait.click()
ObjWaitClick(firstAnswer, clickAnswer) ==
    Gesture("wait.click", NoArgs, EmptyDict, firstAnswer,
            WaitClick(objRaise, ToDict(ObjNow), firstAnswer, clickAnswer))

\* UiObject2.scroll.<direction>.click(...)
ObjScrollClick(direction, kwargs, firstAnswer, clickAnswer) ==
    Gesture("scroll.click", [NoArgs EXCEPT !.direction = direction], kwargs,
            firstAnswer,
            ScrollClick(ToDict(ObjNow), direction, kwargs, firstAnswer,
                        clickAnswer))

\* The answer of a click that is not issued is fixed.
ClickInputs(firstAnswer, clickAnswer) ==
    firstAnswer # "true" => clickAnswer = "true"

\* The outcome of an RPC that is not issued is fixed.
GestureInputs(answer, done) == done.log = <<>> => answer = "true"

GestureNext ==
    \/ \E kwargs \in Criteria, raiseError \in BOOLEAN : NewObject(kwargs, raiseError)
    \/ \E op \in {"drag", "drag.to"}, x \in Coordinates, y \in Coordinates,
          speed \in Speeds, kwargs \in Criteria, answer \in RpcAnswers :
          /\ GestureInputs(answer, DragTo(EmptyDict, x, y, speed, kwargs, answer))
          /\ Drag(op, x, y, speed, kwargs, answer)
    \/ \E direction \in Directions, percent \in Percents, speed \in Speeds,
          kwargs \in Criteria, answer \in RpcAnswers :
          /\ GestureInputs(answer, ScrollTo(EmptyDict, direction, percent, speed,
                                            kwargs, answer))
          /\ Scroll(direction, percent, speed, kwargs, answer)
    \/ \E firstAnswer \in RpcAnswers, clickAnswer \in RpcAnswers :
          /\ ClickInputs(firstAnswer, clickAnswer)
          /\ ObjWaitClick(firstAnswer, clickAnswer)
    \/ \E direction \in Directions, kwargs \in Criteria,
          firstAnswer \in RpcAnswers, clickAnswer \in RpcAnswers :
          /\ ClickInputs(firstAnswer, clickAnswer)
          /\ kwargs = EmptyDict => firstAnswer = "true"
          /\ ObjScrollClick(direction, kwargs, firstAnswer, clickAnswer)

SpecGesture == ObjectInit /\ [][GestureNext]_vars

(***************************************************************************)
(* Navigation, and the helpers UiObject2 hands out.  Every helper is built *)
(* as _Helper(self._ui, self._selector, ...): its _selector is the         *)
(* object's BySelector itself, not a copy of it.                           *)
(***************************************************************************)
HelperKinds == {"click", "drag", "scroll", "wait"}

\* A reference to the object's own BySelector.
SameBySelector == [shared |-> TRUE, selector |-> EmptyDict, bottom |-> <<>>]

\* A reference to a new BySelector that holds what b holds now.
CopyOf(b) == [shared |-> FALSE, selector |-> b.selector, bottom |-> b.bottom]

\* The BySelector a reference leads to.
Deref(ref) ==
    IF ref.shared THEN ObjNow
    ELSE [selector |-> ref.selector, bottom |-> ref.bottom, exc |-> "None"]

\* What a navigation returns: the object it was called on.
ReturnSelf ==
    [kind |-> "return", val |-> FALSE, exc |-> "None", object |-> "self"]

\* UiObject2.parent, child, sibling, bottom, left, right, top
ObjNavigate(name, kwargs) ==
    LET b == BySelectorAppend(ObjNow, name, kwargs)
    IN /\ name \in SUBSELECTOR
       /\ b.exc = "None" => Len(bottom) < MaxDepth
       /\ selector' = b.selector
       /\ bottom' = b.bottom
       /\ appended' = IF b.exc = "None"
                      THEN Append(appended, [name |-> name, kwargs |-> kwargs])
                      ELSE appended
       /\ objCall' = ObjFound("navigate", name, kwargs, "none", FALSE)
       /\ objLog' = <<>>
       /\ objResult' = IF b.exc = "None" THEN ReturnSelf
                       ELSE Result("raise", FALSE, b.exc)
       /\ UNCHANGED <<objRaise, criteria, watcher, helper>>
       /\ UNCHANGED <<clientVars, svcVars, utilVars>>

\* A variant that gives the helper a BySelector of its own.
GetHelperCopying(kind) ==
    /\ helper' = [kind |-> kind, obtained |-> Len(appended),
                  ref |-> CopyOf(ObjNow)]
    /\ objCall' = ObjFound("helper", kind, EmptyDict, "none", FALSE)
    /\ objLog' = <<>>
    /\ objResult' = Result("return", FALSE, "None")
    /\ UNCHANGED <<selector, bottom, objRaise, criteria, appended, watcher>>
    /\ UNCHANGED <<clientVars, svcVars, utilVars>>

\* UiObject2.click, drag, scroll, wait: the properties that build a helper
\* around self._selector.  `obtained` is the number of navigations before.
GetHelper(kind) ==
    /\ helper' = [kind |-> kind, obtained |-> Len(appended),
                  ref |-> SameBySelector]
    /\ objCall' = ObjFound("helper", kind, EmptyDict, "none", FALSE)
    /\ objLog' = <<>>
    /\ objResult' = Result("return", FALSE, "None")
    /\ UNCHANGED <<selector, bottom, objRaise, criteria, appended, watcher>>
    /\ UNCHANGED <<clientVars, svcVars, utilVars>>

\* _Click.__call__ with no timeout
ClickCall(sel, answer) == Issued(Rpc("clickObj", sel), answer)

\* One call on a helper: click(), drag(0, 7), scroll.down(), wait.exists().
HelperCall(kind, sel, answer) ==
    CASE kind = "click" -> ClickCall(sel, answer)
      [] kind = "drag" -> DragCall(sel, Some(0), Some(7), None, EmptyDict, answer)
      [] kind = "scroll" -> ScrollTo(sel, "DOWN", None, None, EmptyDict, answer)
      [] kind = "wait" ->
             [log |-> <<Rpc("waitForExists", sel)>>,
              result |-> WaitExists(objRaise, FALSE, answer)]

\* A call on the helper held.
ObjHelperCall(answer) ==
    /\ helper.kind \in HelperKinds
    /\ Gesture("helper.call", NoArgs, EmptyDict, answer,
               HelperCall(helper.kind, ToDict(Deref(helper.ref)), answer))

\* parent is a property and takes no criteria; the others take some, with
\* or without a sub-selector key among them.
NavigateInputs(name, kwargs) ==
    IF name = "parent" THEN kwargs = EmptyDict ELSE kwargs # EmptyDict

NavigateInit == ObjectInit /\ objRaise = FALSE

NavigateNext ==
    \/ \E kwargs \in Criteria : NewObject(kwargs, FALSE)
    \/ \E name \in SUBSELECTOR, kwargs \in AppendKwargs :
          /\ NavigateInputs(name, kwargs)
          /\ ObjNavigate(name, kwargs)
    \/ \E kind \in HelperKinds : GetHelper(kind)
    \/ \E answer \in {"true", "false"} : ObjHelperCall(answer)
    \/ \E answer \in {"true", "false"} : ObjExists(answer)

SpecNavigate == NavigateInit /\ [][NavigateNext]_vars

(***************************************************************************)
(* UiWatcher: UiDevice.watcher, UiWatcher.when and UiWatcher.press.       *)
(***************************************************************************)
MaxKeys == 3

WatcherNames == {"w1", "w2"}

\* KeyEvent.KEYCODE_HOME and KEYCODE_BACK
KeyCodes == {3, 4}

KeycodeLists == UNION {[1..n -> KeyCodes] : n \in 0..MaxKeys}

\* registerWatcherForKeycodes returns nothing, or the RPC raises.
Registered(rpc, answer) ==
    [log |-> <<rpc>>,
     result |-> IF answer = "error" THEN Result("raise", FALSE, "Error")
                ELSE Result("return", FALSE, "None")]

\* UiWatcher.press passing the key codes as a set
PressDeduplicating(w, keycodes, answer) ==
    IF keycodes = <<>> THEN ApiError
    ELSE Registered([rpc |-> "registerWatcherForKeycodes",
                     args |-> [name |-> w.name,
                               condition |-> ToDict(w.condition),
                               keycodes |-> SortedPorts(
                                   {keycodes[i] : i \in DOMAIN keycodes})]],
                    answer)

\* UiWatcher.press
Press(w, keycodes, answer) ==
    IF keycodes = <<>> THEN ApiError
    ELSE Registered([rpc |-> "registerWatcherForKeycodes",
                     args |-> [name |-> w.name,
                               condition |-> ToDict(w.condition),
                               keycodes |-> keycodes]],
                    answer)

\* An operation on the watcher.
WatcherOperation(op, name, kwargs, keycodes, answer, w, done) ==
    /\ watcher' = w
    /\ objCall' = [ObjFound(op, name, kwargs, answer, FALSE) EXCEPT
                      !.args = [NoArgs EXCEPT !.keycodes = keycodes]]
    /\ objLog' = done.log
    /\ objResult' = done.result
    /\ UNCHANGED <<selector, bottom, objRaise, criteria, appended, helper>>
    /\ UNCHANGED <<clientVars, svcVars, utilVars>>

NoRpc == [log |-> <<>>, result |-> Result("return", FALSE, "None")]

\* UiDevice.watcher(name)
DeviceWatcher(name) ==
    WatcherOperation("watcher", name, EmptyDict, <<>>, "none",
                     NewWatcher(name), NoRpc)

\* UiWatcher.when(**kwargs)
WatcherWhen(kwargs) ==
    WatcherOperation("when", "", kwargs, <<>>, "none",
                     [watcher EXCEPT !.when = kwargs,
                                     !.condition = BySelectorInit(kwargs)],
                     NoRpc)

\* UiWatcher.press(*keycodes)
WatcherPress(keycodes, answer) ==
    WatcherOperation("press", "", EmptyDict, keycodes, answer, watcher,
                     Press(watcher, keycodes, answer))

WatcherInit ==
    /\ ClientIdle
    /\ UtilIdle
    /\ SvcIdle
    /\ selector = EmptyDict
    /\ bottom = <<>>
    /\ objRaise = FALSE
    /\ criteria = EmptyDict
    /\ appended = <<>>
    /\ watcher \in {NewWatcher(name) : name \in WatcherNames}
    /\ helper = NoHelper
    /\ objCall = NoObjCall
    /\ objLog = <<>>
    /\ objResult = Result("return", FALSE, "None")

WatcherNext ==
    \/ \E name \in WatcherNames : DeviceWatcher(name)
    \/ \E kwargs \in Criteria : WatcherWhen(kwargs)
    \/ \E keycodes \in KeycodeLists, answer \in {"true", "error"} :
          /\ keycodes = <<>> => answer = "true"
          /\ WatcherPress(keycodes, answer)

SpecWatcher == WatcherInit /\ [][WatcherNext]_vars

(***************************************************************************)
(* Claims about UiObject2.drag and UiObject2.scroll.                       *)
(***************************************************************************)
IssuedOne(name) ==
    /\ Len(objLog) = 1
    /\ objLog[1].rpc = name
    /\ objLog[1].selector = objCall.selector
    /\ objResult.exc # "ApiError"

IssuedNone == objLog = <<>> /\ objResult = Result("raise", FALSE, "ApiError")

\* C16: drag and drag.to issue dragObjToObj when x and y are both None and
\* criteria are given, dragObj when x and y are both given and no criteria
\* are, and in every other combination raise ApiError and issue no RPC.
C16_Drag ==
    objCall.op \in {"drag", "drag.to"} =>
        LET x == objCall.args.x
            y == objCall.args.y
            toObject == x = <<>> /\ y = <<>> /\ objCall.kwargs # EmptyDict
            toPoint == Len(x) = 1 /\ Len(y) = 1 /\ objCall.kwargs = EmptyDict
        IN /\ toObject => IssuedOne("dragObjToObj")
           /\ toPoint =>
                  /\ IssuedOne("dragObj")
                  /\ objLog[1].args.x = x
                  /\ objLog[1].args.y = y
           /\ ~toObject /\ ~toPoint => IssuedNone

\* drag called with a single coordinate.
C16_Witness ==
    /\ objCall.op = "drag"
    /\ objCall.args.x = <<0>>
    /\ objCall.args.y = <<>>
    /\ objCall.kwargs = EmptyDict
    /\ objLog = <<>>
    /\ objResult.exc = "ApiError"

\* C17: scroll.<direction> issues scrollUntil (criteria) or
\* scrollUntilFinished (no criteria) when percent and speed are both None,
\* scroll when percent is given and no criteria are, and in every other
\* combination raises ApiError and issues no RPC.
C17_Scroll ==
    objCall.op = "scroll" =>
        LET percent == objCall.args.percent
            speed == objCall.args.speed
            given == objCall.kwargs # EmptyDict
            until == percent = <<>> /\ speed = <<>>
            byPercent == Len(percent) = 1 /\ ~given
        IN /\ (until /\ given) =>
                  /\ IssuedOne("scrollUntil")
                  /\ objLog[1].args.kwargs = objCall.kwargs
           /\ (until /\ ~given) => IssuedOne("scrollUntilFinished")
           /\ byPercent =>
                  /\ IssuedOne("scroll")
                  /\ objLog[1].args.percent = percent
                  /\ objLog[1].args.speed = speed
           /\ ~until /\ ~byPercent => IssuedNone
           /\ Len(objLog) = 1 =>
                  objLog[1].args.direction = objCall.args.direction

\* scroll called with a speed and no percent.
C17_Witness ==
    /\ objCall.op = "scroll"
    /\ objCall.args.percent = <<>>
    /\ objCall.args.speed = <<100>>
    /\ objCall.kwargs = EmptyDict
    /\ objLog = <<>>
    /\ objResult.exc = "ApiError"

(***************************************************************************)
(* Claims about UiWatcher.press.                                           *)
(***************************************************************************)
\* C18: press without a key code raises ApiError and registers nothing;
\* with key codes it registers the watcher once, under the watcher's name,
\* with the criteria of the most recent when() call (none if when() was
\* never called) and the key codes in the order they were passed.
C18_Press ==
    objCall.op = "press" =>
        /\ objCall.args.keycodes = <<>> => IssuedNone
        /\ objCall.args.keycodes # <<>> =>
               /\ Len(objLog) = 1
               /\ objLog[1].rpc = "registerWatcherForKeycodes"
               /\ objLog[1].args.name = watcher.name
               /\ objLog[1].args.condition = watcher.when
               /\ objLog[1].args.keycodes = objCall.args.keycodes
               /\ objResult.exc # "ApiError"

\* press(4, 3) on a watcher whose last when() gave a criterion.
C18_Witness ==
    /\ objCall.op = "press"
    /\ watcher.when = TextA
    /\ Len(objLog) = 1
    /\ objLog[1].args.condition = TextA
    /\ objLog[1].args.keycodes = <<4, 3>>

(***************************************************************************)
(***************************************************************************)
(* Claims about UiObject2.wait.click and UiObject2.scroll.<direction>.click *)
(***************************************************************************)
ClickOps == {"wait.click", "scroll.click"}

\* The positions of the click RPC in the last operation's RPCs.
Clicks == {i \in 1..Len(objLog) : objLog[i].rpc = "clickObj"}

RECURSIVE SubAt(_, _)
SubAt(d, path) == IF path = <<>> THEN d ELSE SubAt(d[Head(path)].sub, Tail(path))

\* C24: parent, child, sibling, bottom, left, right and top return the
\* object they were called on and extend its selector in place: the
\* criteria are stored under the name in what was the bottom dictionary,
\* and every later operation of the object and of a helper obtained from
\* it, before or after, sends the object's selector as it is now; a
\* navigation that raises SelectorError leaves the selector as it was.
C24_Navigation ==
    /\ objCall.op = "navigate" =>
           IF objResult.kind = "raise"
           THEN /\ objResult.exc = "SelectorError"
                /\ selector = objCall.selector
                /\ bottom = objCall.bottom
           ELSE /\ objResult.object = "self"
                /\ bottom = Append(objCall.bottom, objCall.name)
                /\ objCall.name \in DOMAIN SubAt(selector, objCall.bottom)
                /\ SubAt(selector, bottom) = objCall.kwargs
    /\ objCall.op \in {"exists", "helper.call"} =>
           /\ Len(objLog) = 1
           /\ objLog[1].selector = selector
           /\ SubAt(objLog[1].selector, bottom) =
                  IF appended = <<>> THEN criteria
                  ELSE appended[Len(appended)].kwargs

\* A _Wait obtained before any navigation, called after two.
C24_Witness ==
    /\ objCall.op = "helper.call"
    /\ helper.kind = "wait"
    /\ helper.obtained = 0
    /\ Len(appended) = 2
    /\ objLog = <<Rpc("waitForExists", selector)>>
    /\ DOMAIN selector \cap SUBSELECTOR # {}

(* Claims about UiObject2.exists, UiObject2.wait.exists and wait.gone.     *)
(***************************************************************************)
SearchOps == {"exists", "wait.exists", "wait.gone"}

\* raise_error is in force: the object's, or for the two wait operations
\* the call's argument.
RaiseErrorInForce ==
    \/ objRaise
    \/ objCall.op \in {"wait.exists", "wait.gone"} /\ objCall.raise_error

\* C7: exists, wait.exists and wait.gone return True and do not raise when
\* the RPC answers True; when it answers False they raise
\* UiObjectSearchError if raise_error is in force and return False if not.
C7_SearchResult ==
    objCall.op \in SearchOps =>
        /\ objCall.rpc = "true" => objResult = Result("return", TRUE, "None")
        /\ (objCall.rpc = "false" /\ RaiseErrorInForce) =>
               objResult = Result("raise", FALSE, "UiObjectSearchError")
        /\ (objCall.rpc = "false" /\ ~RaiseErrorInForce) =>
               objResult = Result("return", FALSE, "None")

\* wait.gone(raise_error=True) on an object built without raise_error, the
\* RPC answering False: UiObjectSearchError.
C7_Witness ==
    /\ objCall.op = "wait.gone"
    /\ objCall.rpc = "false"
    /\ ~objRaise
    /\ objCall.raise_error
    /\ objResult.exc = "UiObjectSearchError"

(***************************************************************************)
(* Claims about BySelector.                                                *)
(***************************************************************************)
SevenNames == {"child", "parent", "sibling", "bottom", "left", "right", "top"}

AppendRaised == objResult = Result("raise", FALSE, "SelectorError")

\* C8: append(name, **kwargs) raises SelectorError exactly when name is not
\* one of the seven sub-selector names or some key of kwargs is one of them;
\* when it raises, the dictionary and the place of its bottom are as before.
C8_AppendRaises ==
    objCall.op = "append" =>
        /\ AppendRaised <=>
               \/ objCall.name \notin SevenNames
               \/ \E key \in DOMAIN objCall.kwargs : key \in SevenNames
        /\ AppendRaised => (selector = objCall.selector /\ bottom = objCall.bottom)
        /\ ~AppendRaised => objResult = Result("return", FALSE, "None")

\* append('top', text='a', parent='a') on a selector that has a
\* sub-selector: SelectorError, nothing changed.
C8_Witness ==
    /\ objCall.op = "append"
    /\ objCall.name = "top"
    /\ "parent" \in DOMAIN objCall.kwargs
    /\ Len(appended) = 1
    /\ AppendRaised
    /\ selector = objCall.selector

\* The names of the first i successful appends: the way to the dictionary
\* the i-th one created.
NamesTo(i) == [j \in 1..i |-> appended[j].name]

\* The dictionary the i-th append created (the top one for i = 0), as
\* to_dict() shows it.
Level(i) == GetAt(ToDict(ObjNow), NamesTo(i))

SubKeys(d) == DOMAIN d \cap SevenNames

Basic(d) == [k \in DOMAIN d \ SevenNames |-> d[k]]

\* C9: for a BySelector whose criteria hold no sub-selector key, after k
\* successful appends to_dict() is a chain of depth k: the i-th append's
\* criteria are the basic entries of the dictionary under the i-th name in
\* the dictionary the (i-1)-th append created, that dictionary has no other
\* sub-selector key, the innermost one has none, and the top dictionary's
\* basic entries are the criteria the selector was built from.
C9_Chain ==
    SubKeys(criteria) = {} =>
        LET k == Len(appended)
        IN /\ bottom = NamesTo(k)
           /\ Basic(Level(0)) = criteria
           /\ \A i \in 1..k :
                  /\ SubKeys(Level(i - 1)) = {appended[i].name}
                  /\ Level(i - 1)[appended[i].name].isDict
                  /\ Basic(Level(i)) = appended[i].kwargs
           /\ SubKeys(Level(k)) = {}

\* child(text='a') and then child(): a chain of depth two under the same
\* name.
C9_Witness ==
    /\ criteria = TextA
    /\ Len(appended) = 2
    /\ appended[1] = [name |-> "child", kwargs |-> TextA]
    /\ appended[2] = [name |-> "child", kwargs |-> EmptyDict]
    /\ DOMAIN selector = {"text", "child"}
    /\ DOMAIN selector["child"].sub = {"text", "child"}
    /\ selector["child"].sub["child"].sub = EmptyDict

(***************************************************************************)
(* utils.  The logcat dump is a sequence of tokens: a timestamp (a text    *)
(* REGEX_LOGCAT_TIMESTAMP matches), other text, or a line feed.            *)
(***************************************************************************)
MaxLogLen == 5

Ts1 == "09-19 04:02:11.326"
Ts2 == "09-20 17:17:19.550"

Timestamps == {Ts1, Ts2}

\* A text that '.*UiAutomationService.*registered' matches.
AlreadyRegistered == "E AndroidRuntime: UiAutomationService already registered!"

LogTokens == Timestamps \cup {"I logbuffer", AlreadyRegistered, "NL"}

\* bytes.splitlines(): the lines between the line feeds; what follows the
\* last line feed is a line only if it is not empty.
RECURSIVE SplitFrom(_, _)
SplitFrom(s, cur) ==
    IF s = <<>> THEN (IF cur = <<>> THEN <<>> ELSE <<cur>>)
    ELSE IF Head(s) = "NL" THEN <<cur>> \o SplitFrom(Tail(s), <<>>)
    ELSE SplitFrom(Tail(s), Append(cur, Head(s)))

SplitLines(s) == SplitFrom(s, <<>>)

\* re.findall(REGEX_LOGCAT_TIMESTAMP.encode(), line)
FindTimestamps(line) == SelectSeq(line, LAMBDA tok : tok \in Timestamps)

UtilReturn(val) == [kind |-> "return", val |-> val]

IndexError == [kind |-> "raise", val |-> "IndexError"]

\* get_latest_logcat_timestamp reading the first line of the dump instead
\* of the last
GetLatestLogcatTimestampFirstLine(dump) ==
    LET lines == SplitLines(dump)
    IN IF lines = <<>> THEN IndexError
       ELSE LET found == FindTimestamps(lines[1])
            IN IF found = <<>> THEN IndexError
               ELSE UtilReturn(found[Len(found)])

\* utils.get_latest_logcat_timestamp
GetLatestLogcatTimestamp(dump) ==
    LET lines == SplitLines(dump)
    IN IF lines = <<>> THEN IndexError
       ELSE LET found == FindTimestamps(lines[Len(lines)])
            IN IF found = <<>> THEN IndexError
               ELSE UtilReturn(found[Len(found)])

CallGetLatestLogcatTimestamp ==
    /\ utilCall' = "get_latest_logcat_timestamp"
    /\ utilArg' = NoArg
    /\ utilResult' = GetLatestLogcatTimestamp(logcat)
    /\ UNCHANGED logcat
    /\ UNCHANGED <<clientVars, svcVars, objVars>>

\* The device logs one more token; what a call returned is forgotten.
Logged(tok) ==
    /\ Len(logcat) < MaxLogLen
    /\ logcat' = Append(logcat, tok)
    /\ utilCall' = "none"
    /\ utilArg' = NoArg
    /\ utilResult' = UtilReturn("")
    /\ UNCHANGED <<clientVars, svcVars, objVars>>

(***************************************************************************)
(* utils.is_uiautomator_service_registered.                                *)
(***************************************************************************)
TsBefore == "09-20 17:17:19.549"
TsAfter == "09-20 17:17:19.551"

\* The start_time arguments: timestamps get_latest_logcat_timestamp may
\* have returned.
StartTimes == {Ts1, TsBefore, Ts2, TsAfter}

\* The fields mobly reads from a log line timestamp 'MM-DD hh:mm:ss.mmm':
\* month, day, hour, minute, second, millisecond.
ParseLoglineTimestamp(t) ==
    CASE t = Ts1 -> <<9, 19, 4, 2, 11, 326>>
      [] t = TsBefore -> <<9, 20, 17, 17, 19, 549>>
      [] t = Ts2 -> <<9, 20, 17, 17, 19, 550>>
      [] t = TsAfter -> <<9, 20, 17, 17, 19, 551>>

\* mobly_logger.logline_timestamp_comparator: -1, 0 or 1 as the first
\* field in which t1 and t2 differ is smaller or larger in t1.
RECURSIVE CompareFields(_, _)
CompareFields(f1, f2) ==
    IF f1 = <<>> THEN 0
    ELSE IF Head(f1) < Head(f2) THEN -1
    ELSE IF Head(f1) > Head(f2) THEN 1
    ELSE CompareFields(Tail(f1), Tail(f2))

LoglineTimestampComparator(t1, t2) ==
    CompareFields(ParseLoglineTimestamp(t1), ParseLoglineTimestamp(t2))

\* The match of REGEX_UIA_SERVICE_ALREADY_REGISTERED in one line, as the
\* sequence of its groups: '.' matches no line feed, the leftmost match
\* starts at the first timestamp of the line that the text follows, and
\* it runs to the last 'registered' of the line, so a line has at most one.
MatchRegistered(line) ==
    LET starts == {i \in 1..Len(line) :
                       /\ line[i] \in Timestamps
                       /\ \E j \in (i + 1)..Len(line) :
                              line[j] = AlreadyRegistered}
    IN IF starts = {} THEN <<>>
       ELSE <<line[CHOOSE i \in starts : \A k \in starts : i <= k]>>

\* re.findall(REGEX_UIA_SERVICE_ALREADY_REGISTERED.encode(), logcat)
RECURSIVE FindRegistered(_)
FindRegistered(lines) ==
    IF lines = <<>> THEN <<>>
    ELSE MatchRegistered(Head(lines)) \o FindRegistered(Tail(lines))

\* is_uiautomator_service_registered judging by the first match
IsRegisteredByFirstError(dump, start_time) ==
    LET runtime_errors == FindRegistered(SplitLines(dump))
    IN IF runtime_errors = <<>> THEN UtilReturn(FALSE)
       ELSE UtilReturn(
                LoglineTimestampComparator(runtime_errors[1], start_time)
                    > -1)

\* utils.is_uiautomator_service_registered
IsUiautomatorServiceRegistered(dump, start_time) ==
    LET runtime_errors == FindRegistered(SplitLines(dump))
    IN IF runtime_errors = <<>> THEN UtilReturn(FALSE)
       ELSE LET error_time == runtime_errors[Len(runtime_errors)]
            IN UtilReturn(
                   LoglineTimestampComparator(error_time, start_time) > -1)

CallIsUiautomatorServiceRegistered(start_time) ==
    /\ utilCall' = "is_uiautomator_service_registered"
    /\ utilArg' = [type |-> "str", val |-> start_time]
    /\ utilResult' = IsUiautomatorServiceRegistered(logcat, start_time)
    /\ UNCHANGED logcat
    /\ UNCHANGED <<clientVars, svcVars, objVars>>

(***************************************************************************)
(* utils.covert_to_millisecond.  Python's float is the IEEE 754 binary64:  *)
(* a sign, a significand of MantissaBits bits and a power of two.  The     *)
(* significand and the products on the way to it exceed the integers of    *)
(* the checker, so a natural number is kept as its limbs in base Base,     *)
(* least significant first, without leading zero limbs.                    *)
(***************************************************************************)
Base == 1024
LimbBits == 10
MantissaBits == 53

RECURSIVE Pow2(_)
Pow2(n) == IF n = 0 THEN 1 ELSE 2 * Pow2(n - 1)

RECURSIVE BitLen(_)
BitLen(n) == IF n = 0 THEN 0 ELSE 1 + BitLen(n \div 2)

RECURSIVE BigFromInt(_)
BigFromInt(n) ==
    IF n = 0 THEN <<>> ELSE <<n % Base>> \o BigFromInt(n \div Base)

RECURSIVE BigToInt(_)
BigToInt(a) == IF a = <<>> THEN 0 ELSE Head(a) + Base * BigToInt(Tail(a))

BigBitLen(a) ==
    IF a = <<>> THEN 0 ELSE LimbBits * (Len(a) - 1) + BitLen(a[Len(a)])

\* a * k + c, for k and c below 2^20
RECURSIVE BigMulAdd(_, _, _)
BigMulAdd(a, k, c) ==
    IF a = <<>> THEN BigFromInt(c)
    ELSE LET v == Head(a) * k + c
         IN IF Tail(a) = <<>> /\ v = 0 THEN <<>>
            ELSE <<v % Base>> \o BigMulAdd(Tail(a), k, v \div Base)

\* a * 2^n
BigShiftLeft(a, n) ==
    IF a = <<>> THEN <<>>
    ELSE [i \in 1..(n \div LimbBits) |-> 0]
             \o BigMulAdd(a, Pow2(n % LimbBits), 0)

\* The quotient and the remainder of a by d, for d below 2^20
RECURSIVE BigDivRem(_, _)
BigDivRem(a, d) ==
    IF a = <<>> THEN [q |-> <<>>, r |-> 0]
    ELSE LET hi == BigDivRem(Tail(a), d)
             cur == hi.r * Base + Head(a)
         IN [q |-> IF hi.q = <<>> /\ cur \div d = 0 THEN <<>>
                   ELSE <<cur \div d>> \o hi.q,
             r |-> cur % d]

\* floor(a / 2^n)
RECURSIVE BigShiftRight(_, _)
BigShiftRight(a, n) ==
    IF a = <<>> THEN <<>>
    ELSE IF n >= LimbBits THEN BigShiftRight(Tail(a), n - LimbBits)
    ELSE BigDivRem(a, Pow2(n)).q

BigIsOdd(a) == a # <<>> /\ Head(a) % 2 = 1

FloatZero == [neg |-> FALSE, m |-> <<>>, e |-> 0]

\* The float m * 2^e nearest to (q + r/d) * 2^e, ties to the even
\* significand, for a quotient q of MantissaBits bits.
RoundToFloat(neg, q, r, d, e) ==
    LET up == 2 * r > d \/ (2 * r = d /\ BigIsOdd(q))
        m == IF up THEN BigMulAdd(q, 1, 1) ELSE q
    IN IF BigBitLen(m) > MantissaBits
       THEN [neg |-> neg, m |-> BigShiftRight(m, 1), e |-> e + 1]
       ELSE [neg |-> neg, m |-> m, e |-> e]

Abs(n) == IF n < 0 THEN -n ELSE n

\* int / int, Python's true division: the float nearest to the quotient.
\* k is chosen so that floor(|n| * 2^k / d) has MantissaBits bits.
TrueDivide(n, d) ==
    IF n = 0 THEN FloatZero
    ELSE LET k0 == MantissaBits - (BitLen(Abs(n)) - BitLen(d))
             big == BigFromInt(Abs(n))
             d0 == BigDivRem(BigShiftLeft(big, k0), d)
             k == IF BigBitLen(d0.q) > MantissaBits THEN k0 - 1 ELSE k0
             dk == IF k = k0 THEN d0
                   ELSE BigDivRem(BigShiftLeft(big, k), d)
         IN RoundToFloat(n < 0, dk.q, dk.r, d, -k)

\* float * c for an integer c between 1 and 2^10: the float nearest to
\* the product.
FloatTimes(f, c) ==
    IF f.m = <<>> THEN f
    ELSE LET p == BigMulAdd(f.m, c, 0)
             s == BigBitLen(p) - MantissaBits
             d == BigDivRem(p, Pow2(s))
         IN RoundToFloat(f.neg, d.q, d.r, Pow2(s), f.e + s)

\* int(float): the integer part, truncated toward zero
FloatToInt(f) ==
    LET mag == IF f.e >= 0 THEN BigToInt(BigShiftLeft(f.m, f.e))
               ELSE BigToInt(BigShiftRight(f.m, -f.e))
    IN IF f.neg THEN -mag ELSE mag

UtilsInit ==
    /\ ClientIdle
    /\ SvcIdle
    /\ ObjIdle
    /\ UtilIdle

UtilsNext ==
    \/ CallGetLatestLogcatTimestamp
    \/ \E start_time \in StartTimes :
           CallIsUiautomatorServiceRegistered(start_time)
    \/ \E tok \in LogTokens : Logged(tok)

SpecUtils == UtilsInit /\ [][UtilsNext]_vars

MillisPerSecond == 1000
MicrosPerSecond == 1000000

MaxMillis == 3000
MaxHundredths == 12345

\* The timeouts: an int; a float, written with two decimals; a timedelta,
\* which Python keeps as a whole number of microseconds (here every
\* quarter of a millisecond from 0 to MaxMillis).
IntInputs == {[type |-> "int", val |-> n] : n \in -MaxMillis..MaxMillis}

FloatInputs ==
    {[type |-> "float", hundredths |-> h] :
        h \in -MaxHundredths..MaxHundredths}

TimedeltaInputs ==
    {[type |-> "timedelta", microseconds |-> 250 * q] :
        q \in 0..(4 * MaxMillis)}

TimeUnit == IntInputs \cup FloatInputs \cup TimedeltaInputs

\* timedelta.total_seconds(): the microseconds divided by 10^6
TotalSeconds(timeout) == TrueDivide(timeout.microseconds, MicrosPerSecond)

\* The float a literal with two decimals denotes
FloatLiteral(timeout) == TrueDivide(timeout.hundredths, 100)

\* utils.covert_to_millisecond
CovertToMillisecond(timeout) ==
    IF timeout.type = "timedelta"
    THEN FloatToInt(FloatTimes(TotalSeconds(timeout), MillisPerSecond))
    ELSE IF timeout.type = "float" THEN FloatToInt(FloatLiteral(timeout))
    ELSE timeout.val

CallCovertToMillisecond ==
    /\ utilCall = "none"
    /\ utilArg \in TimeUnit
    /\ utilCall' = "covert_to_millisecond"
    /\ utilResult' = UtilReturn(CovertToMillisecond(utilArg))
    /\ UNCHANGED <<logcat, utilArg>>
    /\ UNCHANGED <<clientVars, svcVars, objVars>>

ConvertInit ==
    /\ ClientIdle
    /\ SvcIdle
    /\ ObjIdle
    /\ logcat = <<>>
    /\ utilCall = "none"
    /\ utilArg \in TimeUnit
    /\ utilResult = UtilReturn("")

ConvertNext == CallCovertToMillisecond

SpecConvert == ConvertInit /\ [][ConvertNext]_vars

(***************************************************************************)
(* Claims about utils.                                                     *)
(***************************************************************************)
\* C10: get_latest_logcat_timestamp returns the empty string when the
\* logcat dump is empty.
C10_EmptyLogcat ==
    (utilCall = "get_latest_logcat_timestamp" /\ logcat = <<>>) =>
        utilResult = UtilReturn("")

LastLine == LET lines == SplitLines(logcat) IN lines[Len(lines)]

\* C13: when the last line of the logcat dump carries a timestamp,
\* get_latest_logcat_timestamp returns that timestamp (the last one of the
\* line), whatever the earlier lines contain.
C13_LastLineTimestamp ==
    (/\ utilCall = "get_latest_logcat_timestamp"
     /\ SplitLines(logcat) # <<>>
     /\ \E i \in 1..Len(LastLine) : LastLine[i] \in Timestamps) =>
        LET i == CHOOSE i \in 1..Len(LastLine) :
                    /\ LastLine[i] \in Timestamps
                    /\ \A j \in (i + 1)..Len(LastLine) :
                           LastLine[j] \notin Timestamps
        IN utilResult = UtilReturn(LastLine[i])

\* An earlier line carries another timestamp than the last line does.
C13_Witness ==
    /\ utilCall = "get_latest_logcat_timestamp"
    /\ logcat = <<Ts2, "NL", Ts1>>
    /\ utilResult = UtilReturn(Ts1)

\* The lines of the dump, by number, that report the registration: a
\* timestamp followed by the text.
RegisteredLines ==
    {n \in 1..Len(SplitLines(logcat)) :
        \E i, j \in 1..Len(SplitLines(logcat)[n]) :
            /\ i < j
            /\ SplitLines(logcat)[n][i] \in Timestamps
            /\ SplitLines(logcat)[n][j] = AlreadyRegistered}

\* The timestamp of a line: the first one it carries.
LineTimestamp(n) ==
    LET line == SplitLines(logcat)[n]
    IN line[CHOOSE i \in 1..Len(line) :
                /\ line[i] \in Timestamps
                /\ \A k \in 1..(i - 1) : line[k] \notin Timestamps]

\* t1 is at or after t2, field by field from the month down.
AtOrAfter(t1, t2) ==
    LET f1 == ParseLoglineTimestamp(t1)
        f2 == ParseLoglineTimestamp(t2)
    IN \/ f1 = f2
       \/ \E k \in 1..6 : /\ f1[k] > f2[k]
                          /\ \A h \in 1..(k - 1) : f1[h] = f2[h]

\* C11: is_uiautomator_service_registered returns True if and only if the
\* log has a line reporting 'UiAutomationService ... registered' and the
\* timestamp of the last such line is at or after start_time; it returns
\* False when there is no such line and when the last one is older.
C11_RegisteredSinceStart ==
    utilCall = "is_uiautomator_service_registered" =>
        /\ utilResult.kind = "return"
        /\ utilResult.val \in BOOLEAN
        /\ utilResult.val <=>
               /\ RegisteredLines # {}
               /\ AtOrAfter(
                      LineTimestamp(
                          CHOOSE n \in RegisteredLines :
                              \A k \in RegisteredLines : k <= n),
                      utilArg.val)

\* An old report is followed by one at start_time: registered.
C11_Witness ==
    /\ utilCall = "is_uiautomator_service_registered"
    /\ logcat = <<Ts1, AlreadyRegistered, "NL", Ts2, AlreadyRegistered>>
    /\ utilArg.val = Ts2
    /\ utilResult = UtilReturn(TRUE)

\* n / d truncated toward zero, in the integers
TruncDiv(n, d) == IF n >= 0 THEN n \div d ELSE -((-n) \div d)

\* C12: covert_to_millisecond returns an integer input unchanged, a
\* non-integer number truncated toward zero, and for a timedelta its total
\* length in milliseconds (1000*s for s whole seconds).
C12_Milliseconds ==
    utilCall = "covert_to_millisecond" =>
        /\ utilResult.kind = "return"
        /\ utilArg.type = "int" => utilResult.val = utilArg.val
        /\ utilArg.type = "float" =>
               utilResult.val = TruncDiv(utilArg.hundredths, 100)
        /\ (utilArg.type = "timedelta" /\ utilArg.microseconds % 1000 = 0) =>
               utilResult.val = TruncDiv(utilArg.microseconds, 1000)

=============================================================================
